---------------------------- MODULE Spec2Model ----------------------------
(* A model of ezReader's event-driven core:                                *)
(*   - the cross-frame full-text extraction protocol                       *)
(*     (utils/pdfTextExtractor.ts, extractFullTextFromPDF),                *)
(*   - the streaming chat client (services/api.ts, APIService.streamChat), *)
(*   - the chat session hook (hooks/useChat.ts, useChat),                  *)
(*   - the roadmap graph construction (RoadmapGenerator.createFlowFromData *)
(*     in its flat and its d3-hierarchy variant),                          *)
(*   - the failure mapping of the API client (APIService.generateRoadmap,  *)
(*     APIService.streamChat) and of App.generateRoadmapFromText,          *)
(*   - the send controls of the chat view (ChatInterface.handleSend).      *)
(* Each subsystem has its own specification (SpecExtract, SpecStream,      *)
(* SpecChat, SpecRoadmap, SpecApi, SpecView); the variables of the other   *)
(* subsystems stay at their initial values under it.                       *)
EXTENDS Integers, Sequences, FiniteSets, TLC

VARIABLES
    \* --- extraction protocol (host window) ---
    iframe,            \* what document.querySelector('iframe[title="PDF Viewer"]') finds
    calls,             \* one record per extractFullTextFromPDF call, in call order
    posted,            \* number of EXTRACT_FULL_TEXT messages posted to the iframe
    \* --- streaming chat client ---
    lines,             \* the lines the server wrote into the response body
    body,              \* the response body, as characters
    pos,               \* number of characters reader.read() has handed out so far
    yielded,           \* the fragments streamChat has yielded, in order
    streamStatus,      \* "reading" | "suspended" | "returned" | "completed" | "failed" | "closed"
    thrownAt,          \* Len(yielded) when `throw new Error(parsed.error)` first ran, else -1
    cutLine,           \* whether some read so far ended inside a line of the body
    pendingLines,      \* lines of the current chunk after the yield the generator is suspended at
    \* --- chat session hook ---
    messages,          \* useState<ChatMessage[]>
    isLoading,         \* useState(false)
    streamingMessage,  \* useState('')
    sends,             \* one record per sendMessage call, in call order
    clock,             \* Date.now()
    \* --- roadmap graph construction ---
    roadmapData,       \* the JsonNode[] given to createFlowFromData
    layoutVariant,     \* "flat" | "hierarchy": which createFlowFromData the component has
    flowNodes,         \* ids of the nodes given to setNodes, in order
    flowEdges,         \* the edges given to setEdges, in order
    flowStatus,        \* history: "pending" before the mount effect, then the last
                       \* write of nodes and edges: "rendered" | "cleared" | "edited"
    layoutType,        \* useState<LayoutType>('tree') of the d3-hierarchy variant
    \* --- API client failure mapping ---
    apiCall,           \* the APIService call that settled last, and how
    apiPending,        \* the generateRoadmap calls waiting at await axios.post
    apiPosts,          \* number of axios.post requests issued
    \* --- chat view send controls ---
    viewVariant,       \* "extracting" | "direct": which ChatInterface is mounted
    input,             \* useState('') of the textarea
    selectedText,      \* the selectedText prop
    lastSlotWrite,     \* history: the latest TEXT_SELECTION message or clear
    isExtractingPdf,   \* useState(false)
    handlers,          \* one record per handleSend invocation that passed its guard
    viewIsLoading,     \* isLoading of the view's useChat instance
    viewLogLen,        \* messages.length of the view's useChat instance

    \* --- embedded selection monitor (text-selection-monitor.js) ---
    isInitialized,     \* let isInitialized
    listeners,         \* one closure per registration of the selection listeners
    timers,            \* pending setTimeout timers of the frame
    nextTimerId,       \* the id the next setTimeout returns
    now,               \* time in ms since the script ran
    docSelection,      \* the frame's selection and highlighted text-layer spans
    outbox,            \* messages posted to window.parent, in order
    eventTimes,        \* history: times of the selection events the listeners saw
    pdfjsInitialized,  \* window.PDFViewerApplication.initialized
    readyState,        \* document.readyState
    initCalls,         \* history: who has called initializeTextSelectionMonitoring
    received,          \* history: messages received from the host, by type
    pendingExtractions, \* promises of extractTextFromPDFDocument not yet settled

    \* --- the roadmap App (App of hooks/useChat.ts, lines 226-576) ---
    textInput,         \* useState('') of the text tab
    jsonInput,         \* useState('') of the JSON tab
    appNodes,          \* useNodesState([]): the ids of the nodes
    appEdges,          \* useEdgesState([])
    appError,          \* useState('')
    appLoading,        \* useState(false)
    appCalls,          \* one record per generateRoadmapFromText call
    appFetches         \* number of fetch('/roadmap/generate') requests issued

extractVars == <<iframe, calls, posted>>
streamVars  == <<lines, body, pos, yielded, streamStatus, thrownAt, cutLine,
                 pendingLines>>
chatVars    == <<messages, isLoading, streamingMessage, sends, clock>>
roadmapVars == <<roadmapData, layoutVariant, flowNodes, flowEdges, flowStatus,
                 layoutType>>
apiVars     == <<apiCall, apiPending, apiPosts>>
viewVars    == <<input, viewVariant, selectedText, lastSlotWrite, isExtractingPdf,
                 handlers, viewIsLoading, viewLogLen>>
monitorVars == <<isInitialized, listeners, timers, nextTimerId, now, docSelection,
                 outbox, eventTimes, pdfjsInitialized, readyState, initCalls,
                 received, pendingExtractions>>
appVars     == <<textInput, jsonInput, appNodes, appEdges, appError, appLoading,
                 appCalls, appFetches>>
vars        == <<iframe, calls, posted,
                 lines, body, pos, yielded, streamStatus, thrownAt, cutLine,
                 pendingLines,
                 messages, isLoading, streamingMessage, sends, clock,
                 roadmapData, layoutVariant, flowNodes, flowEdges, flowStatus,
                 layoutType,
                 apiCall, apiPending, apiPosts,
                 viewVariant, input, selectedText, lastSlotWrite, isExtractingPdf,
                 handlers, viewIsLoading, viewLogLen,
                 isInitialized, listeners, timers, nextTimerId, now, docSelection,
                 outbox, eventTimes, pdfjsInitialized, readyState, initCalls,
                 received, pendingExtractions,
                 textInput, jsonInput, appNodes, appEdges, appError, appLoading,
                 appCalls, appFetches>>

-----------------------------------------------------------------------------
(* Bounds of the model.                                                    *)

MaxCalls == 2
MaxTextLen == 2
MaxLines == 2
MaxSends == 2
MaxFragments == 2
MaxClock == 1

-----------------------------------------------------------------------------
(* Text as sequences of characters; String.prototype.trim.                 *)

Chars == {"a", " "}

IsWhitespace(ch) == ch \in {" ", "\n", "\t", "\r"}

RECURSIVE TrimStart(_)
TrimStart(s) ==
    IF s = <<>> THEN <<>>
    ELSE IF IsWhitespace(Head(s)) THEN TrimStart(Tail(s))
    ELSE s

RECURSIVE TrimEnd(_)
TrimEnd(s) ==
    IF s = <<>> THEN <<>>
    ELSE IF IsWhitespace(s[Len(s)]) THEN TrimEnd(SubSeq(s, 1, Len(s) - 1))
    ELSE s

Trim(s) == TrimEnd(TrimStart(s))

SeqsUpTo(S, n) == UNION {[1..k -> S] : k \in 0..n}

Texts == SeqsUpTo(Chars, MaxTextLen)

-----------------------------------------------------------------------------
(* The extraction protocol: extractFullTextFromPDF.                        *)

ErrIframeNotFound == "PDF viewer iframe not found. Please make sure a PDF is loaded."
ErrNoContentWindow == "Cannot access PDF viewer content. Please make sure a PDF is loaded."
ErrTimeout == "Text extraction timed out. The PDF might be too large or not fully loaded."
ErrNoText == "No text found in the PDF. The document might be image-based or empty."
ErrExtractDefault == "Failed to extract text from PDF"

IframeStates == {"absent", "noContentWindow", "present"}

\* event.data of a message event on the host window
Message(type, hasText, text, error) ==
    [type |-> type, hasText |-> hasText, text |-> text, error |-> error]

NoMessage == Message("NONE", FALSE, <<>>, "")

ResponseMessages ==
    {Message("FULL_TEXT_RESPONSE", TRUE, t, "") : t \in Texts}
        \cup {Message("FULL_TEXT_RESPONSE", FALSE, <<>>, "")}

ErrorMessages ==
    {Message("FULL_TEXT_ERROR", FALSE, <<>>, e) : e \in {"", "No text found in PDF document"}}

OtherMessages == {Message("TEXT_SELECTION", TRUE, <<"a">>, "")}

HostMessages == ResponseMessages \cup ErrorMessages \cup OtherMessages

\* Mutant of IsBlankText: the whitespace-only case is not tested.
IsBlankTextNoTrim(m) == ~m.hasText \/ Len(m.text) = 0

\* !extractedText || extractedText.trim().length === 0
IsBlankText(m) == ~m.hasText \/ Len(m.text) = 0 \/ Len(Trim(m.text)) = 0

\* The Promise's resolve / reject: only the first call of either settles it.
Resolve(call, text) ==
    IF call.status = "pending"
    THEN [call EXCEPT !.status = "resolved", !.text = text]
    ELSE call

Reject(call, error) ==
    IF call.status = "pending"
    THEN [call EXCEPT !.status = "rejected", !.error = error]
    ELSE call

ClearTimeout(timer) == IF timer = "pending" THEN "cleared" ELSE timer

\* Mutant of TearDown: the listener is not removed.
TearDownKeepListener(call, m) ==
    [call EXCEPT !.timer = ClearTimeout(@), !.ran = @ + 1, !.lastMsg = m]

\* clearTimeout(timeout); window.removeEventListener('message', handleMessage)
TearDown(call, m) ==
    [call EXCEPT !.timer = ClearTimeout(@), !.listener = FALSE,
                 !.ran = @ + 1, !.lastMsg = m]

handleMessage(call, m) ==
    IF m.type = "FULL_TEXT_RESPONSE"
    THEN IF IsBlankText(m)
         THEN Reject(TearDown(call, m), ErrNoText)
         ELSE Resolve(TearDown(call, m), m.text)
    ELSE IF m.type = "FULL_TEXT_ERROR"
    THEN Reject(TearDown(call, m),
                IF m.error # "" THEN m.error ELSE ErrExtractDefault)
    ELSE call

\* The callback of setTimeout(..., 10000).
onTimeout(call) == Reject([call EXCEPT !.timer = "fired"], ErrTimeout)

NewCall == [status |-> "pending", text |-> <<>>, error |-> "",
            listener |-> FALSE, timer |-> "none", ran |-> 0, lastMsg |-> NoMessage]

\* Mutant of StartedCall: the timer is started before the iframe is looked up.
StartedCallTimerFirst(frame) ==
    IF frame = "absent"
    THEN Reject([NewCall EXCEPT !.timer = "pending"], ErrIframeNotFound)
    ELSE IF frame = "noContentWindow"
    THEN Reject([NewCall EXCEPT !.timer = "pending"], ErrNoContentWindow)
    ELSE [NewCall EXCEPT !.timer = "pending", !.listener = TRUE]

\* The executor of the Promise extractFullTextFromPDF returns.
StartedCall(frame) ==
    IF frame = "absent" THEN Reject(NewCall, ErrIframeNotFound)
    ELSE IF frame = "noContentWindow" THEN Reject(NewCall, ErrNoContentWindow)
    ELSE [NewCall EXCEPT !.timer = "pending", !.listener = TRUE]

PostsRequest(frame) == frame = "present"

ExtractCall ==
    /\ Len(calls) < MaxCalls
    /\ calls' = Append(calls, StartedCall(iframe))
    /\ posted' = IF PostsRequest(iframe) THEN posted + 1 ELSE posted
    /\ UNCHANGED iframe
    /\ UNCHANGED <<streamVars, chatVars, roadmapVars, apiVars, viewVars, monitorVars, appVars>>

TimeoutFires ==
    /\ \E c \in DOMAIN calls :
            /\ calls[c].timer = "pending"
            /\ calls' = [calls EXCEPT ![c] = onTimeout(@)]
            /\ UNCHANGED <<iframe, posted>>
    /\ UNCHANGED <<streamVars, chatVars, roadmapVars, apiVars, viewVars, monitorVars, appVars>>

DeliverMessageFirstOnly ==
    /\ \E m \in HostMessages :
            /\ calls' = [c \in DOMAIN calls |->
                            IF /\ calls[c].listener
                               /\ \A d \in DOMAIN calls : calls[d].listener => c <= d
                            THEN handleMessage(calls[c], m)
                            ELSE calls[c]]
            /\ UNCHANGED <<iframe, posted>>
    /\ UNCHANGED <<streamVars, chatVars, roadmapVars, apiVars, viewVars, monitorVars, appVars>>

\* A message event on the host window: every listener registered when the
\* event is dispatched runs on it.
DeliverMessage ==
    /\ \E m \in HostMessages :
            /\ calls' = [c \in DOMAIN calls |->
                            IF calls[c].listener THEN handleMessage(calls[c], m)
                            ELSE calls[c]]
            /\ UNCHANGED <<iframe, posted>>
    /\ UNCHANGED <<streamVars, chatVars, roadmapVars, apiVars, viewVars, monitorVars, appVars>>

\* The PDF viewer iframe is mounted, unmounted, or loses its content window.
SetIframe ==
    /\ \E f \in IframeStates :
            /\ f # iframe
            /\ iframe' = f
            /\ UNCHANGED <<calls, posted>>
    /\ UNCHANGED <<streamVars, chatVars, roadmapVars, apiVars, viewVars, monitorVars, appVars>>

ExtractInit ==
    /\ iframe \in IframeStates
    /\ calls = <<>>
    /\ posted = 0

ExtractIdle ==
    /\ iframe = "absent"
    /\ calls = <<>>
    /\ posted = 0

-----------------------------------------------------------------------------
(* The streaming chat client: the read loop of APIService.streamChat.      *)
(* The body is ASCII, so TextDecoder.decode(value, {stream: true}) returns *)
(* the characters of the bytes it is given.                                *)

DataPrefix == <<"d", "a", "t", "a", ":", " ">>
DoneToken == <<"[", "D", "O", "N", "E", "]">>
ContentOpen == <<"{", "\"", "c", "o", "n", "t", "e", "n", "t", "\"", ":", " ", "\"">>
ErrorOpen == <<"{", "\"", "e", "r", "r", "o", "r", "\"", ":", " ", "\"">>
ObjectClose == <<"\"", "}">>
Newline == <<"\n">>

\* What the backend writes: one line per event.
LineKinds == {"contentA", "contentB", "error", "done", "malformed", "comment"}

LineContent(kind) ==
    IF kind = "contentA" THEN <<"a">>
    ELSE IF kind = "contentB" THEN <<"b">>
    ELSE <<>>

RenderLine(kind) ==
    IF kind \in {"contentA", "contentB"}
    THEN DataPrefix \o ContentOpen \o LineContent(kind) \o ObjectClose
    ELSE IF kind = "error" THEN DataPrefix \o ErrorOpen \o <<"e">> \o ObjectClose
    ELSE IF kind = "done" THEN DataPrefix \o DoneToken
    ELSE IF kind = "comment" THEN <<":", " ", "k">>
    ELSE DataPrefix \o <<"{", "o", "o", "p", "s">>

RECURSIVE RenderBody(_)
RenderBody(ls) ==
    IF ls = <<>> THEN <<>>
    ELSE RenderLine(Head(ls)) \o Newline \o RenderBody(Tail(ls))

StartsWith(s, p) == Len(s) >= Len(p) /\ SubSeq(s, 1, Len(p)) = p

EndsWith(s, p) == Len(s) >= Len(p) /\ SubSeq(s, Len(s) - Len(p) + 1, Len(s)) = p

\* chunk.split('\n')
RECURSIVE SplitFrom(_, _)
SplitFrom(s, cur) ==
    IF s = <<>> THEN <<cur>>
    ELSE IF Head(s) = "\n" THEN <<cur>> \o SplitFrom(Tail(s), <<>>)
    ELSE SplitFrom(Tail(s), Append(cur, Head(s)))

SplitLines(chunk) == SplitFrom(chunk, <<>>)

IsPlainString(s) == \A i \in 1..Len(s) : s[i] \notin {"\"", "\\"}

\* JSON.parse, on the payloads a piece of a rendered line can be: an object
\* with one string member `content` or `error`; every other such piece (a
\* proper prefix of an object, the malformed payload) is a SyntaxError.
JSONParse(data) ==
    LET inner(open) == SubSeq(data, Len(open) + 1, Len(data) - Len(ObjectClose))
        isObj(open) == /\ StartsWith(data, open)
                       /\ EndsWith(data, ObjectClose)
                       /\ Len(data) >= Len(open) + Len(ObjectClose)
                       /\ IsPlainString(inner(open))
    IN  IF isObj(ContentOpen)
        THEN [ok |-> TRUE, content |-> inner(ContentOpen), error |-> <<>>]
        ELSE IF isObj(ErrorOpen)
        THEN [ok |-> TRUE, content |-> <<>>, error |-> inner(ErrorOpen)]
        ELSE [ok |-> FALSE, content |-> <<>>, error |-> <<>>]

\* The progress of the generator within one chunk.
Progress(y, returned, thrown) == [yielded |-> y, returned |-> returned, thrownAt |-> thrown]

\* The body of the inner try: JSON.parse, then yield or throw. `threw` says
\* whether the block ended by an exception (a SyntaxError of JSON.parse, or
\* the Error raised for parsed.error).
TryParse(data, st) ==
    LET parsed == JSONParse(data) IN
    IF ~parsed.ok THEN [st |-> st, threw |-> TRUE]
    ELSE IF parsed.content # <<>>
    THEN [st |-> [st EXCEPT !.yielded = Append(@, parsed.content)], threw |-> FALSE]
    ELSE IF parsed.error # <<>>
    THEN [st |-> [st EXCEPT !.thrownAt = IF @ = -1 THEN Len(st.yielded) ELSE @],
          threw |-> TRUE]
    ELSE [st |-> st, threw |-> FALSE]

CatchParseErrorFatal(r) == IF r.threw THEN [r.st EXCEPT !.returned = TRUE] ELSE r.st

\* catch (parseError) { console.warn(...) }: whatever the try block threw is
\* logged and the loop goes on to the next line.
CatchParseError(r) == r.st

ProcessLine(line, st) ==
    IF Trim(line) = <<>> THEN st
    ELSE IF ~StartsWith(line, DataPrefix) THEN st
    ELSE LET data == SubSeq(line, Len(DataPrefix) + 1, Len(line)) IN
         IF data = DoneToken THEN [st EXCEPT !.returned = TRUE]
         ELSE CatchParseError(TryParse(data, st))

\* The for loop over the lines of a chunk, from the line it stands at to the
\* next yield, to the return at the sentinel, or to the end of the chunk.
\* `rest` are the lines after the yield the generator is then suspended at.
RECURSIVE RunLines(_, _)
RunLines(ls, st) ==
    IF ls = <<>> \/ st.returned THEN [st |-> st, rest |-> <<>>, suspended |-> FALSE]
    ELSE LET next == ProcessLine(Head(ls), st) IN
         IF Len(next.yielded) > Len(st.yielded)
         THEN [st |-> next, rest |-> Tail(ls), suspended |-> TRUE]
         ELSE RunLines(Tail(ls), next)

\* Where the generator stands after the loop ran: suspended at a yield, done
\* after the return at the sentinel, or back at `await reader.read()`.
StatusAfter(run) ==
    IF run.suspended THEN "suspended"
    ELSE IF run.st.returned THEN "returned"
    ELSE "reading"

\* A read that hands out the body up to position p ends inside a line: the
\* characters on both sides of p belong to one line.
CutsLine(p) == p < Len(body) /\ body[p] # "\n" /\ body[p + 1] # "\n"

\* reader.read() hands out the next n characters of the body; the chunk is
\* split and its lines are run up to the first yield.
ReadChunk ==
    /\ streamStatus = "reading"
    /\ \E n \in 1..(Len(body) - pos) :
        LET run == RunLines(SplitLines(SubSeq(body, pos + 1, pos + n)),
                            Progress(yielded, FALSE, thrownAt))
        IN  /\ pos' = pos + n
            /\ yielded' = run.st.yielded
            /\ thrownAt' = run.st.thrownAt
            /\ pendingLines' = run.rest
            /\ streamStatus' = StatusAfter(run)
            /\ cutLine' = (cutLine \/ CutsLine(pos + n))
    /\ UNCHANGED <<lines, body>>
    /\ UNCHANGED <<extractVars, chatVars, roadmapVars, apiVars, viewVars, monitorVars, appVars>>

\* The consumer asks for the next fragment (next()): the generator goes on
\* from its yield with the rest of the chunk's lines.
ConsumerNext ==
    /\ streamStatus = "suspended"
    /\ LET run == RunLines(pendingLines, Progress(yielded, FALSE, thrownAt))
       IN  /\ yielded' = run.st.yielded
           /\ thrownAt' = run.st.thrownAt
           /\ pendingLines' = run.rest
           /\ streamStatus' = StatusAfter(run)
    /\ UNCHANGED <<lines, body, pos, cutLine>>
    /\ UNCHANGED <<extractVars, chatVars, roadmapVars, apiVars, viewVars, monitorVars, appVars>>

\* The consumer ends the iteration at a yield (return()): the finally block
\* releases the reader and the generator is done.
ConsumerReturns ==
    /\ streamStatus = "suspended"
    /\ streamStatus' = "closed"
    /\ pendingLines' = <<>>
    /\ UNCHANGED <<lines, body, pos, yielded, thrownAt, cutLine>>
    /\ UNCHANGED <<extractVars, chatVars, roadmapVars, apiVars, viewVars, monitorVars, appVars>>

\* reader.read() gives {done: true}: break, and the generator completes.
ReadDone ==
    /\ streamStatus = "reading"
    /\ pos = Len(body)
    /\ streamStatus' = "completed"
    /\ UNCHANGED <<lines, body, pos, yielded, thrownAt, cutLine, pendingLines>>
    /\ UNCHANGED <<extractVars, chatVars, roadmapVars, apiVars, viewVars, monitorVars, appVars>>

\* reader.read() rejects: the outer catch raises 'Failed to get chat response'.
ReadFails ==
    /\ streamStatus = "reading"
    /\ streamStatus' = "failed"
    /\ UNCHANGED <<lines, body, pos, yielded, thrownAt, cutLine, pendingLines>>
    /\ UNCHANGED <<extractVars, chatVars, roadmapVars, apiVars, viewVars, monitorVars, appVars>>

StreamInit ==
    /\ lines \in SeqsUpTo(LineKinds, MaxLines)
    /\ body = RenderBody(lines)
    /\ pos = 0
    /\ yielded = <<>>
    /\ streamStatus = "reading"
    /\ thrownAt = -1
    /\ cutLine = FALSE
    /\ pendingLines = <<>>

StreamIdle ==
    /\ lines = <<>>
    /\ body = <<>>
    /\ pos = 0
    /\ yielded = <<>>
    /\ streamStatus = "reading"
    /\ thrownAt = -1
    /\ cutLine = FALSE
    /\ pendingLines = <<>>

-----------------------------------------------------------------------------
(* The chat session hook: useChat. State updates (setMessages with an      *)
(* updater, setIsLoading, setStreamingMessage) are applied in the order    *)
(* they are issued; a step of the model is the code run between two        *)
(* suspension points of sendMessage.                                       *)

ApologyText == "Sorry, I encountered an error. Please try again."

\* What the user may type, and what streamChat may yield as its k-th
\* fragment: "Hello", " there", "Hello", ...
UserTexts == {"hi"}

FragmentsAt(k) == {IF k % 2 = 1 THEN "Hello" ELSE " there"}

\* `msg_${Date.now()}_user`, `msg_${Date.now()}_assistant`, `msg_${Date.now()}_error`
MessageId(t, suffix) == [t |-> t, suffix |-> suffix]

ChatMessage(id, content, role, t) ==
    [id |-> id, content |-> content, role |-> role, timestamp |-> t]

\* Mutant of AppendTurn: the placeholder is appended before the user message.
AppendTurnPlaceholderFirst(prev, text, t) ==
    Append(Append(prev, ChatMessage(MessageId(t, "assistant"), "", "assistant", t)),
           ChatMessage(MessageId(t, "user"), text, "user", t))

\* setMessages(prev => [...prev, userMessage]);
\* setMessages(prev => [...prev, assistantMessage])
AppendTurn(prev, text, t) ==
    Append(Append(prev, ChatMessage(MessageId(t, "user"), text, "user", t)),
           ChatMessage(MessageId(t, "assistant"), "", "assistant", t))

\* prev.map(msg => msg.id === assistantMessageId ? {...msg, content: fullContent} : msg)
FinalizeLog(prev, assistantMessageId, fullContent) ==
    [i \in DOMAIN prev |->
        IF prev[i].id = assistantMessageId
        THEN [prev[i] EXCEPT !.content = fullContent]
        ELSE prev[i]]

\* Mutant of AppendError: the log is replaced by the error message.
AppendErrorDroppingLog(prev, t) ==
    <<ChatMessage(MessageId(t, "error"), ApologyText, "assistant", t)>>

\* setMessages(prev => [...prev, errorMessage])
AppendError(prev, t) ==
    Append(prev, ChatMessage(MessageId(t, "error"), ApologyText, "assistant", t))

\* sendMessage up to the first await of the for-await loop. A send record
\* keeps the call's locals (assistantMessageId, fullContent) and, for the
\* properties, what it was given: the fragments received, the number of
\* streamChat calls, the log index its placeholder was appended at,
\* whether the log was cleared since, and the state of the promise the async
\* function returned.
SendMessage ==
    /\ Len(sends) < MaxSends
    /\ \E text \in UserTexts :
        /\ messages' = AppendTurn(messages, text, clock)
        /\ sends' = Append(sends,
                [pc |-> "streaming",
                 assistantMessageId |-> MessageId(clock, "assistant"),
                 fullContent |-> "",
                 received |-> <<>>,
                 requests |-> 1,
                 slot |-> Len(messages) + 2,
                 cleared |-> FALSE,
                 promise |-> "pending"])
    /\ isLoading' = TRUE
    /\ streamingMessage' = ""
    /\ UNCHANGED clock
    /\ UNCHANGED <<extractVars, streamVars, roadmapVars, apiVars, viewVars, monitorVars, appVars>>

StreamYieldsIntoLog ==
    /\ \E s \in DOMAIN sends :
        \E f \in FragmentsAt(Len(sends[s].received) + 1) :
            /\ sends[s].pc = "streaming"
            /\ Len(sends[s].received) < MaxFragments
            /\ sends' = [sends EXCEPT ![s].fullContent = @ \o f,
                                      ![s].received = Append(@, f)]
            /\ streamingMessage' = sends[s].fullContent \o f
            /\ messages' = FinalizeLog(messages, sends[s].assistantMessageId,
                                       sends[s].fullContent \o f)
            /\ UNCHANGED <<isLoading, clock>>
    /\ UNCHANGED <<extractVars, streamVars, roadmapVars, apiVars, viewVars, monitorVars, appVars>>

\* One iteration of the for-await loop: fullContent += chunk;
\* setStreamingMessage(fullContent)
StreamYields ==
    /\ \E s \in DOMAIN sends :
        \E f \in FragmentsAt(Len(sends[s].received) + 1) :
            /\ sends[s].pc = "streaming"
            /\ Len(sends[s].received) < MaxFragments
            /\ sends' = [sends EXCEPT ![s].fullContent = @ \o f,
                                      ![s].received = Append(@, f)]
            /\ streamingMessage' = sends[s].fullContent \o f
            /\ UNCHANGED <<messages, isLoading, clock>>
    /\ UNCHANGED <<extractVars, streamVars, roadmapVars, apiVars, viewVars, monitorVars, appVars>>

\* The generator completes: the placeholder is finalized, then `finally`.
StreamEnds ==
    /\ \E s \in DOMAIN sends :
            /\ sends[s].pc = "streaming"
            /\ messages' = FinalizeLog(messages, sends[s].assistantMessageId,
                                       sends[s].fullContent)
            /\ streamingMessage' = ""
            /\ isLoading' = FALSE
            /\ sends' = [sends EXCEPT ![s].pc = "done",
                                      ![s].promise = "fulfilled"]
            /\ UNCHANGED clock
    /\ UNCHANGED <<extractVars, streamVars, roadmapVars, apiVars, viewVars, monitorVars, appVars>>

StreamThrowsRethrow ==
    /\ \E s \in DOMAIN sends :
            /\ sends[s].pc = "streaming"
            /\ messages' = AppendError(messages, clock)
            /\ isLoading' = FALSE
            /\ sends' = [sends EXCEPT ![s].pc = "failed",
                                      ![s].promise = "rejected"]
            /\ UNCHANGED <<streamingMessage, clock>>
    /\ UNCHANGED <<extractVars, streamVars, roadmapVars, apiVars, viewVars, monitorVars, appVars>>

\* streamChat raises: the catch block, which does not rethrow, then
\* `finally`; the async function returns and its promise is fulfilled.
StreamThrows ==
    /\ \E s \in DOMAIN sends :
            /\ sends[s].pc = "streaming"
            /\ messages' = AppendError(messages, clock)
            /\ isLoading' = FALSE
            /\ sends' = [sends EXCEPT ![s].pc = "failed",
                                      ![s].promise = "fulfilled"]
            /\ UNCHANGED <<streamingMessage, clock>>
    /\ UNCHANGED <<extractVars, streamVars, roadmapVars, apiVars, viewVars, monitorVars, appVars>>

ClearMessagesKeepBuffer ==
    /\ messages' = <<>>
    /\ sends' = [s \in DOMAIN sends |-> [sends[s] EXCEPT !.cleared = TRUE]]
    /\ UNCHANGED <<isLoading, streamingMessage, clock>>
    /\ UNCHANGED <<extractVars, streamVars, roadmapVars, apiVars, viewVars, monitorVars, appVars>>

\* clearMessages: setMessages([]); setStreamingMessage('')
ClearMessages ==
    /\ messages' = <<>>
    /\ streamingMessage' = ""
    /\ sends' = [s \in DOMAIN sends |-> [sends[s] EXCEPT !.cleared = TRUE]]
    /\ UNCHANGED <<isLoading, clock>>
    /\ UNCHANGED <<extractVars, streamVars, roadmapVars, apiVars, viewVars, monitorVars, appVars>>

\* Date.now() advances.
Tick ==
    /\ clock < MaxClock
    /\ clock' = clock + 1
    /\ UNCHANGED <<messages, isLoading, streamingMessage, sends>>
    /\ UNCHANGED <<extractVars, streamVars, roadmapVars, apiVars, viewVars, monitorVars, appVars>>

ChatInit ==
    /\ messages = <<>>
    /\ isLoading = FALSE
    /\ streamingMessage = ""
    /\ sends = <<>>
    /\ clock = 0

-----------------------------------------------------------------------------
(* Roadmap graph construction: RoadmapGenerator.createFlowFromData, in the *)
(* flat variant (also App.createFlowFromData) and the d3-hierarchy variant.*)

MaxNodes == 2
MaxStartingPoints == 3

\* The ids of the nodes of an array, by position: ids in one array differ.
IdAt == <<"A", "B", "C", "D">>

\* An optional string[] field of a JsonNode: absent, or a list of ids.
Absent == [present |-> FALSE, ids |-> <<>>]
IdList(ids) == [present |-> TRUE, ids |-> ids]

\* outdegree_id values: absent, empty, an id of the array, a dangling id,
\* an id twice, two ids.
OutLists ==
    {Absent, IdList(<<>>), IdList(<<"A">>), IdList(<<"B">>), IdList(<<"X">>),
     IdList(<<"B", "B">>), IdList(<<"A", "B">>)}

\* indegree_id values.
InLists ==
    {Absent, IdList(<<>>), IdList(<<"A">>), IdList(<<"B">>), IdList(<<"X">>),
     IdList(<<"A", "A">>)}

JsonNode(id, outs, ins) == [id |-> id, outdegree_id |-> outs, indegree_id |-> ins]

\* The arrays of n nodes.
RECURSIVE RoadmapInputs(_)
RoadmapInputs(n) ==
    IF n = 0 THEN {<<>>}
    ELSE {Append(data, JsonNode(IdAt[n], outs, ins)) :
            data \in RoadmapInputs(n - 1), outs \in OutLists, ins \in InLists}

\* data.some(node => node.id === id)
NodeExists(data, id) == \E i \in DOMAIN data : data[i].id = id

\* `${source}->${target}`
EdgeId(source, target) == source \o "->" \o target

NoEdges == [flowEdges |-> <<>>, addedEdges |-> {}]

AddEdgeNoDedupe(acc, source, target, style, cond) ==
    IF cond
    THEN [flowEdges |-> Append(acc.flowEdges,
                               [id |-> EdgeId(source, target), source |-> source,
                                target |-> target, style |-> style]),
          addedEdges |-> acc.addedEdges \cup {EdgeId(source, target)}]
    ELSE acc

\* if (cond && !addedEdges.has(edgeId)) { flowEdges.push(...); addedEdges.add(edgeId) }
AddEdge(acc, source, target, style, cond) ==
    IF cond /\ EdgeId(source, target) \notin acc.addedEdges
    THEN [flowEdges |-> Append(acc.flowEdges,
                               [id |-> EdgeId(source, target), source |-> source,
                                target |-> target, style |-> style]),
          addedEdges |-> acc.addedEdges \cup {EdgeId(source, target)}]
    ELSE acc

\* item.outdegree_id.forEach(targetId => ...)
RECURSIVE OutdegreeEdges(_, _, _, _, _)
OutdegreeEdges(acc, item, targets, data, style) ==
    IF targets = <<>> THEN acc
    ELSE OutdegreeEdges(
            AddEdge(acc, item.id, Head(targets), style, NodeExists(data, Head(targets))),
            item, Tail(targets), data, style)

\* item.indegree_id.forEach(sourceId => ...)
RECURSIVE IndegreeEdges(_, _, _, _)
IndegreeEdges(acc, item, sources, data) ==
    IF sources = <<>> THEN acc
    ELSE IndegreeEdges(
            AddEdge(acc, Head(sources), item.id, "solid", NodeExists(data, Head(sources))),
            item, Tail(sources), data)

\* The flat variant's data.forEach: the outdegree_id pass of an item, then
\* its indegree_id pass.
RECURSIVE FlatEdges(_, _, _)
FlatEdges(acc, items, data) ==
    IF items = <<>> THEN acc
    ELSE LET item == Head(items)
             outs == IF item.outdegree_id.present
                     THEN OutdegreeEdges(acc, item, item.outdegree_id.ids, data, "solid")
                     ELSE acc
             ins  == IF item.indegree_id.present
                     THEN IndegreeEdges(outs, item, item.indegree_id.ids, data)
                     ELSE outs
         IN FlatEdges(ins, Tail(items), data)

\* The hierarchy variant's data.forEach after the hierarchy pass: the
\* outdegree_id pass only.
RECURSIVE AdditionalEdges(_, _, _)
AdditionalEdges(acc, items, data) ==
    IF items = <<>> THEN acc
    ELSE LET item == Head(items)
             outs == IF item.outdegree_id.present
                     THEN OutdegreeEdges(acc, item, item.outdegree_id.ids, data, "dashed")
                     ELSE acc
         IN AdditionalEdges(outs, Tail(items), data)

\* allNodes.find(n => n.id === childId), for a childId that some node has
Find(allNodes, id) ==
    allNodes[CHOOSE i \in DOMAIN allNodes :
                /\ allNodes[i].id = id
                /\ \A j \in DOMAIN allNodes : allNodes[j].id = id => i <= j]

\* node.outdegree_id.map(find).filter(child => child !== undefined)
RECURSIVE FoundChildren(_, _)
FoundChildren(ids, allNodes) ==
    IF ids = <<>> THEN <<>>
    ELSE IF NodeExists(allNodes, Head(ids))
         THEN <<Find(allNodes, Head(ids))>> \o FoundChildren(Tail(ids), allNodes)
         ELSE FoundChildren(Tail(ids), allNodes)

RECURSIVE buildHierarchyNode(_, _, _)
buildHierarchyNode(node, allNodes, visited) ==
    IF node.id \in visited
    THEN [id |-> node.id, children |-> <<>>]
    ELSE LET found == FoundChildren(node.outdegree_id.ids, allNodes)
         IN [id |-> node.id,
             children |-> [k \in DOMAIN found |->
                 buildHierarchyNode(found[k], allNodes, visited \cup {node.id})]]

\* data.filter(node => !node.indegree_id || node.indegree_id.length === 0)
RECURSIVE RootCandidates(_)
RootCandidates(data) ==
    IF data = <<>> THEN <<>>
    ELSE IF Head(data).indegree_id.ids = <<>>
         THEN <<Head(data)>> \o RootCandidates(Tail(data))
         ELSE RootCandidates(Tail(data))

Min(a, b) == IF a <= b THEN a ELSE b

convertToHierarchy(data) ==
    LET rootCandidates == RootCandidates(data)
        topLevelNodes ==
            IF rootCandidates = <<>>
            THEN SubSeq(data, 1, Min(MaxStartingPoints, Len(data)))
            ELSE rootCandidates
    IN IF Len(rootCandidates) = 0 \/ Len(rootCandidates) > 1
       THEN [id |-> "virtual-root",
             children |-> [k \in DOMAIN topLevelNodes |->
                 buildHierarchyNode(topLevelNodes[k], data, {})]]
       ELSE buildHierarchyNode(rootCandidates[1], data, {})

\* root.each(node => flowNodes.push({id: node.data.id, ...})): breadth first.
RECURSIVE EachId(_)
EachId(queue) ==
    IF queue = <<>> THEN <<>>
    ELSE <<Head(queue).id>> \o EachId(Tail(queue) \o Head(queue).children)

\* createHierarchyEdges(node): for each child, the edge parent -> child
\* unless the parent is the virtual root, then the child's own subtree.
RECURSIVE createHierarchyEdges(_, _, _)
createHierarchyEdges(acc, parentId, children) ==
    IF children = <<>> THEN acc
    ELSE LET child == Head(children)
             own == AddEdge(acc, parentId, child.id, "solid", parentId # "virtual-root")
             below == createHierarchyEdges(own, child.id, child.children)
         IN createHierarchyEdges(below, parentId, Tail(children))

\* What createFlowFromData passes to setNodes and setEdges.
createFlowFromData(variant, data) ==
    IF variant = "flat"
    THEN [nodes |-> [i \in DOMAIN data |-> data[i].id],
          edges |-> FlatEdges(NoEdges, data, data).flowEdges]
    ELSE LET root == convertToHierarchy(data)
             hier == createHierarchyEdges(NoEdges, root.id, root.children)
         IN [nodes |-> EachId(<<root>>),
             edges |-> AdditionalEdges(hier, data, data).flowEdges]

\* The roadmaps a 2xx response of POST /roadmap/generate carries, which the
\* parent then passes as the roadmapData prop.
SampleRoadmaps ==
    {<<JsonNode("A", IdList(<<"B">>), Absent), JsonNode("B", Absent, Absent)>>,
     <<JsonNode("A", Absent, Absent)>>}

\* The body of the effect: createFlowFromData(roadmapData) for a non-empty
\* array, else setNodes([]) and setEdges([]).
RunEffect(data) ==
    /\ flowNodes' = IF Len(data) > 0
                    THEN createFlowFromData(layoutVariant, data).nodes ELSE <<>>
    /\ flowEdges' = IF Len(data) > 0
                    THEN createFlowFromData(layoutVariant, data).edges ELSE <<>>
    /\ flowStatus' = IF Len(data) > 0 THEN "rendered" ELSE "cleared"

\* The component mounts with its roadmapData and the effect runs.
CreateFlow ==
    /\ flowStatus = "pending"
    /\ RunEffect(roadmapData)
    /\ UNCHANGED <<roadmapData, layoutVariant, layoutType>>
    /\ UNCHANGED <<extractVars, streamVars, chatVars, apiVars, viewVars, monitorVars, appVars>>

\* The parent passes another array as roadmapData (handleRoadmapGenerated
\* with the array of a response, or an empty array) and the effect runs
\* again, also when the new array has the content of the old one.
RoadmapDataChanges ==
    /\ flowStatus # "pending"
    /\ \E data \in SampleRoadmaps \cup {<<>>} :
        /\ roadmapData' = data
        /\ RunEffect(data)
    /\ UNCHANGED <<layoutVariant, layoutType>>
    /\ UNCHANGED <<extractVars, streamVars, chatVars, apiVars, viewVars, monitorVars, appVars>>

\* onChange of the layout select in the d3-hierarchy variant:
\* setLayoutType, and the effect runs again with the same roadmapData.
SetLayoutType ==
    /\ flowStatus # "pending"
    /\ layoutVariant = "hierarchy"
    /\ layoutType' = IF layoutType = "tree" THEN "cluster" ELSE "tree"
    /\ RunEffect(roadmapData)
    /\ UNCHANGED <<roadmapData, layoutVariant>>
    /\ UNCHANGED <<extractVars, streamVars, chatVars, apiVars, viewVars, monitorVars, appVars>>

\* handleClear: setNodes([]), setEdges([]) and onClear(), which the parent
\* always passes as handleClearRoadmap: setRoadmapData([]).
HandleClear ==
    /\ flowStatus # "pending"
    /\ flowNodes' = <<>>
    /\ flowEdges' = <<>>
    /\ flowStatus' = "cleared"
    /\ roadmapData' = <<>>
    /\ UNCHANGED <<layoutVariant, layoutType>>
    /\ UNCHANGED <<extractVars, streamVars, chatVars, apiVars, viewVars, monitorVars, appVars>>

\* The connections the user draws between two rendered nodes.
Connections ==
    {[source |-> "A", target |-> "B"], [source |-> "B", target |-> "A"]}

\* addEdge(params, eds) of the flow library: eds as it is when an edge with
\* the same source and target is there, else eds with the new edge, whose
\* id is made of the two ends.
addEdge(params, eds) ==
    IF \E k \in DOMAIN eds :
           eds[k].source = params.source /\ eds[k].target = params.target
    THEN eds
    ELSE Append(eds, [id |-> "xy-edge__" \o params.source \o "-" \o params.target,
                      source |-> params.source, target |-> params.target,
                      style |-> "default"])

\* onConnect: setEdges((eds) => addEdge(params, eds))
OnConnect ==
    /\ flowStatus # "pending"
    /\ \E params \in Connections :
        /\ \E k \in DOMAIN flowNodes : flowNodes[k] = params.source
        /\ \E k \in DOMAIN flowNodes : flowNodes[k] = params.target
        /\ flowEdges' = addEdge(params, flowEdges)
        /\ flowStatus' = IF addEdge(params, flowEdges) = flowEdges
                         THEN flowStatus ELSE "edited"
    /\ UNCHANGED <<roadmapData, layoutVariant, flowNodes, layoutType>>
    /\ UNCHANGED <<extractVars, streamVars, chatVars, apiVars, viewVars, monitorVars, appVars>>

\* applyNodeChanges of the flow library for a change of type 'remove':
\* the nodes without those of the given id.
applyNodeChanges(id, nds) == SelectSeq(nds, LAMBDA n : n # id)

\* applyEdgeChanges of the flow library for a change of type 'remove':
\* the edges without those of the given id.
applyEdgeChanges(id, eds) == SelectSeq(eds, LAMBDA e : e.id # id)

\* onNodesChange of useNodesState, with the change the library sends when
\* the user deletes a node: setNodes((nds) => applyNodeChanges(changes, nds)).
OnNodesChange ==
    /\ flowStatus # "pending"
    /\ \E k \in DOMAIN flowNodes :
        flowNodes' = applyNodeChanges(flowNodes[k], flowNodes)
    /\ flowStatus' = "edited"
    /\ UNCHANGED <<roadmapData, layoutVariant, flowEdges, layoutType>>
    /\ UNCHANGED <<extractVars, streamVars, chatVars, apiVars, viewVars, monitorVars, appVars>>

\* onEdgesChange of useEdgesState, with the change the library sends when
\* the user deletes an edge: setEdges((eds) => applyEdgeChanges(changes, eds)).
\* The canvas is mounted only while there are nodes.
OnEdgesChange ==
    /\ flowStatus # "pending"
    /\ Len(flowNodes) > 0
    /\ \E k \in DOMAIN flowEdges :
        flowEdges' = applyEdgeChanges(flowEdges[k].id, flowEdges)
    /\ flowStatus' = "edited"
    /\ UNCHANGED <<roadmapData, layoutVariant, flowNodes, layoutType>>
    /\ UNCHANGED <<extractVars, streamVars, chatVars, apiVars, viewVars, monitorVars, appVars>>

RoadmapInit ==
    /\ \E n \in 1..MaxNodes : roadmapData \in RoadmapInputs(n)
    /\ layoutVariant \in {"flat", "hierarchy"}
    /\ flowNodes = <<>>
    /\ flowEdges = <<>>
    /\ flowStatus = "pending"
    /\ layoutType = "tree"

RoadmapIdle ==
    /\ roadmapData = <<>>
    /\ layoutVariant = "flat"
    /\ flowNodes = <<>>
    /\ flowEdges = <<>>
    /\ flowStatus = "pending"
    /\ layoutType = "tree"

-----------------------------------------------------------------------------
(* Failure mapping of the API client: APIService.generateRoadmap,          *)
(* App.generateRoadmapFromText and the outer catch of                      *)
(* APIService.streamChat.                                                  *)

ErrRoadmapNotFound ==
    "Roadmap generation endpoint not found. Make sure the backend server is running on http://localhost:8000"
ErrCannotConnect ==
    "Cannot connect to backend server. Make sure it's running on http://localhost:8000"
ErrRoadmapDefault == "Failed to generate roadmap"
ErrChatDefault == "Failed to get chat response"
ErrTextEmpty == "Text input cannot be empty"
AppErrorPrefix == "Error generating roadmap: "

\* A JavaScript value that may be undefined.
Undefined == [defined |-> FALSE, value |-> ""]
Defined(v) == [defined |-> TRUE, value |-> v]

\* a || b on strings: undefined and '' are falsy
Truthy(v) == v.defined /\ v.value # ""

\* An axios error has a code, a message and, when the server answered, a
\* response with a status and a body that may carry `detail`.
NoResponse == [present |-> FALSE, status |-> 0, detail |-> Undefined]
ErrorResponses ==
    {NoResponse} \cup
    {[present |-> TRUE, status |-> st, detail |-> d] :
        st \in {404, 500},
        d \in {Undefined, Defined(""), Defined("Text is too short")}}
ErrorCodes == {"ECONNREFUSED", "ECONNABORTED", "ERR_NETWORK"}
AxiosMessages == {"", "timeout of 30000ms exceeded"}

\* What axios.post rejects with: an axios error, or (isAxiosError false)
\* any other error, which has neither response nor code.
PostErrors ==
    [isAxiosError : {TRUE}, response : ErrorResponses,
     code : ErrorCodes, message : AxiosMessages]
    \cup [isAxiosError : {FALSE}, response : {NoResponse},
          code : {""}, message : AxiosMessages]

\* error.response?.data?.detail
ResponseDetail(error) ==
    IF error.response.present THEN error.response.detail ELSE Undefined

RoadmapErrorMessageRefusedFirst(error) ==
    IF error.isAxiosError
    THEN IF error.code = "ECONNREFUSED" THEN ErrCannotConnect
         ELSE IF error.response.present /\ error.response.status = 404
         THEN ErrRoadmapNotFound
         ELSE IF Truthy(ResponseDetail(error)) THEN ResponseDetail(error).value
         ELSE IF error.message # "" THEN error.message
         ELSE ErrRoadmapDefault
    ELSE ErrRoadmapDefault

\* The catch block of generateRoadmap: the message of the Error it throws.
RoadmapErrorMessage(error) ==
    IF error.isAxiosError
    THEN IF error.response.present /\ error.response.status = 404
         THEN ErrRoadmapNotFound
         ELSE IF error.code = "ECONNREFUSED" THEN ErrCannotConnect
         ELSE IF Truthy(ResponseDetail(error)) THEN ResponseDetail(error).value
         ELSE IF error.message # "" THEN error.message
         ELSE ErrRoadmapDefault
    ELSE ErrRoadmapDefault

\* The record of a call: what it was given (the text, and how its request
\* went: "none" if it made none, "response" for a successful response,
\* "error" with the failure), the number of requests it issued, how it
\* settled and the error message it raised or reported.
NoFailure == [kind |-> "none"]

NoCall ==
    [op |-> "none", text |-> <<>>, outcome |-> "none", failure |-> NoFailure,
     posts |-> 0, settled |-> "none", error |-> ""]

\* Calls of generateRoadmap made in a run.
MaxApiCalls == 2

\* The texts generateRoadmap is called with.
RoadmapTexts == {<<>>, <<" ">>, <<"a">>, <<"a", "a">>}

\* apiService.generateRoadmap(text), to its await: one axios.post is
\* issued, whatever the text, and the call waits for it.
GenerateRoadmap ==
    /\ apiPosts < MaxApiCalls
    /\ \E text \in RoadmapTexts :
        apiPending' = Append(apiPending, [op |-> "generateRoadmap", text |-> text])
    /\ apiPosts' = apiPosts + 1
    /\ UNCHANGED apiCall
    /\ UNCHANGED <<extractVars, streamVars, chatVars, roadmapVars, viewVars, monitorVars, appVars>>

\* `await axios.post(...)` settles for one of the waiting calls: its
\* response data is returned, its error is mapped and thrown.
PostSettles ==
    /\ \E c \in DOMAIN apiPending :
        /\ apiPending' = [k \in 1..(Len(apiPending) - 1) |->
                             IF k < c THEN apiPending[k] ELSE apiPending[k + 1]]
        /\ \/ apiCall' = [op |-> "generateRoadmap", text |-> apiPending[c].text,
                          outcome |-> "response", failure |-> NoFailure,
                          posts |-> 1, settled |-> "returned", error |-> ""]
           \/ \E e \in PostErrors :
               apiCall' = [op |-> "generateRoadmap", text |-> apiPending[c].text,
                           outcome |-> "error", failure |-> e,
                           posts |-> 1, settled |-> "threw",
                           error |-> RoadmapErrorMessage(e)]
    /\ UNCHANGED apiPosts
    /\ UNCHANGED <<extractVars, streamVars, chatVars, roadmapVars, viewVars, monitorVars, appVars>>

\* String.prototype.includes
Includes(s, needle) ==
    \E i \in 0..(Len(s) - Len(needle)) : SubSeq(s, i + 1, i + Len(needle)) = needle

FetchNeedle == <<"f", "e", "t", "c", "h">>

\* The messages of the TypeError fetch() rejects with when the host cannot
\* be reached: Chromium, Firefox, WebKit, Node.
MsgFailedToFetch ==
    <<"F", "a", "i", "l", "e", "d", " ", "t", "o", " ", "f", "e", "t", "c", "h">>
MsgNetworkErrorFetch ==
    <<"N", "e", "t", "w", "o", "r", "k", "E", "r", "r", "o", "r", " ",
      "w", "h", "e", "n", " ", "a", "t", "t", "e", "m", "p", "t", "i", "n", "g", " ",
      "t", "o", " ", "f", "e", "t", "c", "h", " ",
      "r", "e", "s", "o", "u", "r", "c", "e", ".">>
MsgLoadFailed == <<"L", "o", "a", "d", " ", "f", "a", "i", "l", "e", "d">>
MsgFetchFailed == <<"f", "e", "t", "c", "h", " ", "f", "a", "i", "l", "e", "d">>

\* `HTTP error! status: ${response.status}` for a 500
MsgHttpError ==
    <<"H", "T", "T", "P", " ", "e", "r", "r", "o", "r", "!", " ",
      "s", "t", "a", "t", "u", "s", ":", " ", "5", "0", "0">>
MsgNoReader ==
    <<"N", "o", " ", "r", "e", "s", "p", "o", "n", "s", "e", " ", "b", "o", "d", "y", " ",
      "r", "e", "a", "d", "e", "r", " ", "a", "v", "a", "i", "l", "a", "b", "l", "e">>
\* The message of the TypeError reader.read() rejects with when the
\* connection drops mid-stream.
MsgReadNetworkError ==
    <<"n", "e", "t", "w", "o", "r", "k", " ", "e", "r", "r", "o", "r">>

\* What the try block of streamChat can raise to its outer catch, by the
\* stage that raised it.
ChatFailures ==
    {[stage |-> "fetch", isTypeError |-> TRUE, message |-> m] :
        m \in {MsgFailedToFetch, MsgNetworkErrorFetch, MsgLoadFailed, MsgFetchFailed}}
    \cup {[stage |-> "status", isTypeError |-> FALSE, message |-> MsgHttpError],
          [stage |-> "reader", isTypeError |-> FALSE, message |-> MsgNoReader],
          [stage |-> "read", isTypeError |-> TRUE, message |-> MsgReadNetworkError]}

\* The outer catch of streamChat: the message of the Error it throws.
ChatErrorMessage(failure) ==
    IF failure.isTypeError /\ Includes(failure.message, FetchNeedle)
    THEN ErrCannotConnect
    ELSE ErrChatDefault

\* streamChat raises to its caller.
StreamChatFails ==
    /\ \E failure \in ChatFailures :
        apiCall' = [op |-> "streamChat", text |-> <<>>,
                    outcome |-> "error", failure |-> failure, posts |-> 1,
                    settled |-> "threw", error |-> ChatErrorMessage(failure)]
    /\ UNCHANGED <<apiPending, apiPosts>>
    /\ UNCHANGED <<extractVars, streamVars, chatVars, roadmapVars, viewVars, monitorVars, appVars>>

ApiInit ==
    /\ apiCall = NoCall
    /\ apiPending = <<>>
    /\ apiPosts = 0

-----------------------------------------------------------------------------
(* Send controls of the chat view: ChatInterface in the variant that       *)
(* extracts the PDF text before sending ("extracting") and in the variant  *)
(* that sends directly ("direct"). Attachments stay empty. An invocation   *)
(* of handleSend that passed its guard is a handler record, whose pc says  *)
(* where the async function is.                                            *)

MaxHandlers == 2
MaxEvents == 2
MaxInitMessages == 2
MaxExtracts == 2
MaxAppCalls == 2
MaxMonTime == 1000
TimeStep == 250

ViewInputs == {<<>>, <<" ">>, <<"a">>}
Selections == {"", "selected", "other"}

NoSlotWrite == [op |-> "none", text |-> ""]

\* Mutant of handleTextSelection: a selection already held is kept.
handleTextSelectionKeepFirst(text) ==
    /\ selectedText' = IF selectedText = "" THEN text ELSE selectedText
    /\ lastSlotWrite' = [op |-> "message", text |-> text]

\* usePDF.handleTextSelection: setSelectedText(text)
handleTextSelection(text) ==
    /\ selectedText' = text
    /\ lastSlotWrite' = [op |-> "message", text |-> text]

\* App.clearSelectedText: setSelectedText('')
clearSelectedText ==
    /\ selectedText' = ""
    /\ lastSlotWrite' = [op |-> "clear", text |-> ""]

\* disabled= of the textarea
TextareaDisabled ==
    IF viewVariant = "extracting" THEN viewIsLoading ELSE FALSE

\* disabled= of the send button
SendButtonDisabled ==
    IF viewVariant = "extracting"
    THEN viewIsLoading \/ isExtractingPdf \/ Trim(input) = <<>>
    ELSE viewIsLoading \/ (Trim(input) = <<>> /\ selectedText = "")

\* sendMessage of the view's hook instance, to its first await.
BeginSendMessage ==
    /\ viewIsLoading' = TRUE
    /\ viewLogLen' = viewLogLen + 2

\* handleSend, to its first await: nothing when there is nothing to send;
\* in the extracting variant with a selection, the extraction is awaited
\* first; otherwise sendMessage is called at once.
handleSend ==
    /\ Len(handlers) < MaxHandlers
    /\ ~(Trim(input) = <<>> /\ selectedText = "")
    /\ IF viewVariant = "extracting" /\ selectedText # ""
       THEN /\ isExtractingPdf' = TRUE
            /\ handlers' = Append(handlers, [pc |-> "extracting"])
            /\ UNCHANGED <<viewIsLoading, viewLogLen>>
       ELSE /\ BeginSendMessage
            /\ handlers' = Append(handlers, [pc |-> "sending"])
            /\ UNCHANGED isExtractingPdf
    /\ UNCHANGED <<viewVariant, input, selectedText, lastSlotWrite>>

\* onClick of the send button
ClickSend ==
    /\ ~SendButtonDisabled
    /\ handleSend
    /\ UNCHANGED <<extractVars, streamVars, chatVars, roadmapVars, apiVars, monitorVars, appVars>>

\* handleKeyPress with Enter, without shift, in the textarea
PressEnter ==
    /\ ~TextareaDisabled
    /\ handleSend
    /\ UNCHANGED <<extractVars, streamVars, chatVars, roadmapVars, apiVars, monitorVars, appVars>>

\* onChange of the textarea
ChangeInput ==
    /\ ~TextareaDisabled
    /\ \E v \in ViewInputs : input' = v
    /\ UNCHANGED <<viewVariant, selectedText, lastSlotWrite, isExtractingPdf,
                   handlers, viewIsLoading, viewLogLen>>
    /\ UNCHANGED <<extractVars, streamVars, chatVars, roadmapVars, apiVars, monitorVars, appVars>>

\* PDFViewer's message listener receives {type: 'TEXT_SELECTION', text}:
\* onTextSelection(event.data.text).
TextSelectionMessage ==
    /\ \E v \in Selections : handleTextSelection(v)
    /\ UNCHANGED <<viewVariant, input, isExtractingPdf, handlers,
                   viewIsLoading, viewLogLen>>
    /\ UNCHANGED <<extractVars, streamVars, chatVars, roadmapVars, apiVars, monitorVars, appVars>>

\* onClick of the button on the selected-text chip, which is rendered while
\* a selection is held: onClearSelectedText()
ClickClearSelection ==
    /\ selectedText # ""
    /\ clearSelectedText
    /\ UNCHANGED <<viewVariant, input, isExtractingPdf, handlers,
                   viewIsLoading, viewLogLen>>
    /\ UNCHANGED <<extractVars, streamVars, chatVars, roadmapVars, apiVars, monitorVars, appVars>>

\* usePDF.clearPDF: setPdfUrl(''), setSelectedText(''), setError(null)
ClearPDF ==
    /\ selectedText' = ""
    /\ lastSlotWrite' = [op |-> "clear", text |-> ""]
    /\ UNCHANGED <<viewVariant, input, isExtractingPdf, handlers,
                   viewIsLoading, viewLogLen>>
    /\ UNCHANGED <<extractVars, streamVars, chatVars, roadmapVars, apiVars, monitorVars, appVars>>

\* extractFullTextFromPDF settles for a handler, either way:
\* setIsExtractingPdf(false), then sendMessage(request) to its first await.
ExtractionSettles ==
    /\ \E h \in DOMAIN handlers :
        /\ handlers[h].pc = "extracting"
        /\ isExtractingPdf' = FALSE
        /\ BeginSendMessage
        /\ handlers' = [handlers EXCEPT ![h].pc = "sending"]
    /\ UNCHANGED <<viewVariant, input, selectedText, lastSlotWrite>>
    /\ UNCHANGED <<extractVars, streamVars, chatVars, roadmapVars, apiVars, monitorVars, appVars>>

\* sendMessage settles for a handler: its stream ended, or failed and the
\* apology was appended; finally setIsLoading(false). The handler's
\* `await sendMessage(request)` is fulfilled and its continuation is queued.
SendSettles ==
    /\ \E h \in DOMAIN handlers :
        /\ handlers[h].pc = "sending"
        /\ handlers' = [handlers EXCEPT ![h].pc = "sent"]
    /\ \E failed \in BOOLEAN :
        viewLogLen' = IF failed THEN viewLogLen + 1 ELSE viewLogLen
    /\ viewIsLoading' = FALSE
    /\ UNCHANGED <<viewVariant, input, selectedText, lastSlotWrite, isExtractingPdf>>
    /\ UNCHANGED <<extractVars, streamVars, chatVars, roadmapVars, apiVars, monitorVars, appVars>>

\* handleSend after `await sendMessage(request)`: setInput(''),
\* setAttachments([]) and onClearSelectedText().
HandleSendResumes ==
    /\ \E h \in DOMAIN handlers :
        /\ handlers[h].pc = "sent"
        /\ handlers' = [handlers EXCEPT ![h].pc = "finished"]
    /\ input' = <<>>
    /\ clearSelectedText
    /\ UNCHANGED <<viewVariant, isExtractingPdf, viewIsLoading, viewLogLen>>
    /\ UNCHANGED <<extractVars, streamVars, chatVars, roadmapVars, apiVars, monitorVars, appVars>>

\* onClick of the clear button: clearMessages
ClickClear ==
    /\ viewLogLen' = 0
    /\ UNCHANGED <<viewVariant, input, selectedText, lastSlotWrite,
                   isExtractingPdf, handlers, viewIsLoading>>
    /\ UNCHANGED <<extractVars, streamVars, chatVars, roadmapVars, apiVars, monitorVars, appVars>>

ViewInit ==
    /\ viewVariant \in {"extracting", "direct"}
    /\ input = <<>>
    /\ selectedText = ""
    /\ lastSlotWrite = NoSlotWrite
    /\ isExtractingPdf = FALSE
    /\ handlers = <<>>
    /\ viewIsLoading = FALSE
    /\ viewLogLen = 0

ViewIdle ==
    /\ viewVariant = "direct"
    /\ input = <<>>
    /\ selectedText = ""
    /\ lastSlotWrite = NoSlotWrite
    /\ isExtractingPdf = FALSE
    /\ handlers = <<>>
    /\ viewIsLoading = FALSE
    /\ viewLogLen = 0

-----------------------------------------------------------------------------
(* The roadmap App: generateRoadmapFromText, processJsonData, clearDiagram. *)

JsonErrorPrefix == "Error parsing JSON: "
ErrJsonNotArray == "JSON must be an array of objects"
ErrJsonEnd == "Unexpected end of JSON input"
MsgFetchRejected == "Failed to fetch"

\* What fetch('/roadmap/generate') settles with: a rejection, a response
\* that is not ok, or an ok response.
FetchSettlements == {"rejected", "notOk", "ok"}

\* errorData.detail of the JSON body of a response that is not ok
ErrorDetails == {Undefined, Defined(""), Defined("Text is too short")}

\* errorData.detail || 'Failed to generate roadmap'
FetchErrorMessage(detail) ==
    IF Truthy(detail) THEN detail.value ELSE ErrRoadmapDefault

\* What the JSON tab holds: '' (not JSON), the text of a value that is not
\* an array, or the text of an array of nodes.
JsonInputs ==
    {[kind |-> "empty", data |-> <<>>], [kind |-> "object", data |-> <<>>],
     [kind |-> "array", data |-> <<>>],
     [kind |-> "array", data |-> <<JsonNode("A", IdList(<<"A">>), Absent)>>]}
    \cup {[kind |-> "array", data |-> d] : d \in SampleRoadmaps}

\* catch + finally of generateRoadmapFromText
AppFails(message) ==
    /\ appError' = AppErrorPrefix \o message
    /\ appLoading' = FALSE

\* onClick of the Generate button, which is disabled while loading:
\* generateRoadmapFromText, to its first await: setError(''),
\* setLoading(true); blank text throws into the catch at once; otherwise
\* the fetch is issued and the call waits for it.
GenerateRoadmapFromText ==
    /\ ~appLoading
    /\ Len(appCalls) < MaxAppCalls
    /\ IF Trim(textInput) = <<>>
       THEN /\ AppFails(ErrTextEmpty)
            /\ appCalls' = Append(appCalls, [pc |-> "done", text |-> textInput])
            /\ UNCHANGED appFetches
       ELSE /\ appError' = ""
            /\ appLoading' = TRUE
            /\ appFetches' = appFetches + 1
            /\ appCalls' = Append(appCalls, [pc |-> "fetching", text |-> textInput])
    /\ UNCHANGED <<textInput, jsonInput, appNodes, appEdges>>
    /\ UNCHANGED <<extractVars, streamVars, chatVars, roadmapVars, apiVars, viewVars,
                   monitorVars>>

\* `await fetch(...)` settles for a call: a rejection goes to the catch;
\* a response leads to `await response.json()`.
FetchSettles ==
    /\ \E c \in DOMAIN appCalls, outcome \in FetchSettlements :
        /\ appCalls[c].pc = "fetching"
        /\ IF outcome = "rejected"
           THEN /\ AppFails(MsgFetchRejected)
                /\ appCalls' = [appCalls EXCEPT ![c].pc = "done"]
           ELSE /\ appCalls' = [appCalls EXCEPT ![c].pc = outcome]
                /\ UNCHANGED <<appError, appLoading>>
    /\ UNCHANGED <<textInput, jsonInput, appNodes, appEdges, appFetches>>
    /\ UNCHANGED <<extractVars, streamVars, chatVars, roadmapVars, apiVars, viewVars,
                   monitorVars>>

\* `await response.json()` settles for a call: the error body's detail goes
\* to the catch; the ok body's roadmap goes to createFlowFromData; finally
\* setLoading(false).
BodySettles ==
    /\ \E c \in DOMAIN appCalls :
        /\ appCalls[c].pc \in {"notOk", "ok"}
        /\ appCalls' = [appCalls EXCEPT ![c].pc = "done"]
        /\ IF appCalls[c].pc = "notOk"
           THEN /\ \E detail \in ErrorDetails : AppFails(FetchErrorMessage(detail))
                /\ UNCHANGED <<appNodes, appEdges>>
           ELSE /\ \E data \in SampleRoadmaps :
                    /\ appNodes' = createFlowFromData("flat", data).nodes
                    /\ appEdges' = createFlowFromData("flat", data).edges
                /\ appLoading' = FALSE
                /\ UNCHANGED appError
    /\ UNCHANGED <<textInput, jsonInput, appFetches>>
    /\ UNCHANGED <<extractVars, streamVars, chatVars, roadmapVars, apiVars, viewVars,
                   monitorVars>>

\* processJsonData: setError(''), JSON.parse(jsonInput), then
\* createFlowFromData for an array, else the error of the catch.
ProcessJsonData ==
    /\ IF jsonInput.kind = "array"
       THEN /\ appNodes' = createFlowFromData("flat", jsonInput.data).nodes
            /\ appEdges' = createFlowFromData("flat", jsonInput.data).edges
            /\ appError' = ""
       ELSE /\ appError' = JsonErrorPrefix \o
                           (IF jsonInput.kind = "empty" THEN ErrJsonEnd ELSE ErrJsonNotArray)
            /\ UNCHANGED <<appNodes, appEdges>>
    /\ UNCHANGED <<textInput, jsonInput, appLoading, appCalls, appFetches>>
    /\ UNCHANGED <<extractVars, streamVars, chatVars, roadmapVars, apiVars, viewVars,
                   monitorVars>>

\* clearDiagram: nodes, edges, both inputs and the error are reset.
ClearDiagram ==
    /\ appNodes' = <<>>
    /\ appEdges' = <<>>
    /\ jsonInput' = [kind |-> "empty", data |-> <<>>]
    /\ textInput' = <<>>
    /\ appError' = ""
    /\ UNCHANGED <<appLoading, appCalls, appFetches>>
    /\ UNCHANGED <<extractVars, streamVars, chatVars, roadmapVars, apiVars, viewVars,
                   monitorVars>>

\* onChange of the text tab's textarea
ChangeTextInput ==
    /\ \E v \in ViewInputs : v # textInput /\ textInput' = v
    /\ UNCHANGED <<jsonInput, appNodes, appEdges, appError, appLoading, appCalls,
                   appFetches>>
    /\ UNCHANGED <<extractVars, streamVars, chatVars, roadmapVars, apiVars, viewVars,
                   monitorVars>>

\* onChange of the JSON tab's textarea
ChangeJsonInput ==
    /\ \E v \in JsonInputs : v # jsonInput /\ jsonInput' = v
    /\ UNCHANGED <<textInput, appNodes, appEdges, appError, appLoading, appCalls,
                   appFetches>>
    /\ UNCHANGED <<extractVars, streamVars, chatVars, roadmapVars, apiVars, viewVars,
                   monitorVars>>

\* The App's onConnect: setEdges((eds) => addEdge(params, eds))
AppOnConnect ==
    /\ \E params \in Connections :
        /\ \E k \in DOMAIN appNodes : appNodes[k] = params.source
        /\ \E k \in DOMAIN appNodes : appNodes[k] = params.target
        /\ appEdges' = addEdge(params, appEdges)
    /\ UNCHANGED <<textInput, jsonInput, appNodes, appError, appLoading, appCalls,
                   appFetches>>
    /\ UNCHANGED <<extractVars, streamVars, chatVars, roadmapVars, apiVars, viewVars,
                   monitorVars>>

\* The App's onNodesChange, with the change of a deleted node
AppOnNodesChange ==
    /\ \E k \in DOMAIN appNodes :
        appNodes' = applyNodeChanges(appNodes[k], appNodes)
    /\ UNCHANGED <<textInput, jsonInput, appEdges, appError, appLoading, appCalls,
                   appFetches>>
    /\ UNCHANGED <<extractVars, streamVars, chatVars, roadmapVars, apiVars, viewVars,
                   monitorVars>>

\* The App's onEdgesChange, with the change of a deleted edge
AppOnEdgesChange ==
    /\ \E k \in DOMAIN appEdges :
        appEdges' = applyEdgeChanges(appEdges[k].id, appEdges)
    /\ UNCHANGED <<textInput, jsonInput, appNodes, appError, appLoading, appCalls,
                   appFetches>>
    /\ UNCHANGED <<extractVars, streamVars, chatVars, roadmapVars, apiVars, viewVars,
                   monitorVars>>

AppInit ==
    /\ textInput = <<>>
    /\ jsonInput = [kind |-> "empty", data |-> <<>>]
    /\ appNodes = <<>>
    /\ appEdges = <<>>
    /\ appError = ""
    /\ appLoading = FALSE
    /\ appCalls = <<>>
    /\ appFetches = 0

-----------------------------------------------------------------------------
(* The embedded selection monitor: text-selection-monitor.js.              *)

DebounceMs == 300
AutoInitMs == 1000
PdfjsReadyMs == 500
PollMs == 100

ErrNoTextFound == "No text found in PDF document"
ErrNoTextContent == "No text content found in PDF"
ErrTrimNotAFunction == "fullText.trim is not a function"
ErrNullBody == "Cannot read properties of null (reading 'textContent')"
ErrExtractFallback == "Failed to extract text from PDF"

\* Array.prototype.join(sep) over texts
RECURSIVE JoinWith(_, _)
JoinWith(texts, sep) ==
    IF texts = <<>> THEN <<>>
    ELSE IF Len(texts) = 1 THEN Head(texts)
    ELSE Head(texts) \o sep \o JoinWith(Tail(texts), sep)

\* .replace(/\s+/g, ' '): each run of whitespace becomes one space
RECURSIVE CollapseWhitespace(_)
CollapseWhitespace(s) ==
    IF s = <<>> THEN <<>>
    ELSE IF IsWhitespace(Head(s))
         THEN <<" ">> \o CollapseWhitespace(TrimStart(s))
         ELSE <<Head(s)>> \o CollapseWhitespace(Tail(s))

\* What the frame's user can have selected: window.getSelection().toString()
\* and the textContent of the text-layer spans with a background colour.
MonSelections ==
    { [sel |-> <<>>, spans |-> <<>>],
      [sel |-> <<" ", "a", " ">>, spans |-> <<>>],
      [sel |-> <<>>, spans |-> <<(<<"a">>), (<<"a", " ">>)>>],
      [sel |-> <<" ">>, spans |-> <<(<<" ">>)>>] }

\* getSelectedText(): the trimmed window selection, else the joined and
\* trimmed text of the highlighted spans, else ''.
getSelectedText(d) ==
    IF Trim(d.sel) # <<>> THEN Trim(d.sel)
    ELSE IF Len(d.spans) > 0 THEN Trim(JoinWith(d.spans, <<" ">>))
    ELSE <<>>

MonMessage(type, text, error, at, quietSince) ==
    [type |-> type, text |-> text, error |-> error, at |-> at, quietSince |-> quietSince]

LastEventAt == IF eventTimes = <<>> THEN 0 ELSE eventTimes[Len(eventTimes)]

\* sendSelectedText(): posts TEXT_SELECTION when the selected text is
\* non-empty.
sendSelectedText ==
    LET selected == getSelectedText(docSelection)
    IN IF selected # <<>> /\ Len(selected) > 0
       THEN outbox' = Append(outbox, MonMessage("TEXT_SELECTION", selected, "", now, LastEventAt))
       ELSE outbox' = outbox

Timer(id, kind, due) == [id |-> id, kind |-> kind, due |-> due]

\* Mutant of handleSelectionChange: the pending timer is not cancelled.
handleSelectionChangeNoClear(st, c) ==
    [listeners |-> [st.listeners EXCEPT ![c].selectionTimeout = st.nextId],
     timers |-> st.timers \cup {Timer(st.nextId, "debounce", now + DebounceMs)},
     nextId |-> st.nextId + 1]

\* handleSelectionChange() of the closure c:
\* clearTimeout(selectionTimeout); selectionTimeout = setTimeout(..., 300)
handleSelectionChange(st, c) ==
    [listeners |-> [st.listeners EXCEPT ![c].selectionTimeout = st.nextId],
     timers |-> {t \in st.timers : t.id # st.listeners[c].selectionTimeout}
                    \cup {Timer(st.nextId, "debounce", now + DebounceMs)},
     nextId |-> st.nextId + 1]

\* The document dispatches a selection event: every registered closure's
\* listener for it runs, in the order of registration.
RECURSIVE DispatchFrom(_, _)
DispatchFrom(st, c) ==
    IF c > Len(st.listeners) THEN st
    ELSE DispatchFrom(handleSelectionChange(st, c), c + 1)

\* The listeners call handleSelectionChange for mouseup, selectionchange,
\* and keyup with shift, ctrl or meta held; a plain keyup does nothing.
EventKinds == {"mouseup", "selectionchange", "keyup-modified", "keyup-plain"}

Observed(kind) == kind # "keyup-plain" /\ Len(listeners) > 0

\* Mutant of initializeTextSelectionMonitoring: no isInitialized guard.
initializeTextSelectionMonitoringUnguarded(caller) ==
    /\ initCalls' = initCalls \cup {caller}
    /\ isInitialized' = TRUE
    /\ listeners' = Append(listeners, [selectionTimeout |-> 0])

\* initializeTextSelectionMonitoring(): registers the listeners with a new
\* closure, unless isInitialized.
initializeTextSelectionMonitoring(caller) ==
    /\ initCalls' = initCalls \cup {caller}
    /\ IF isInitialized
       THEN UNCHANGED <<isInitialized, listeners>>
       ELSE /\ isInitialized' = TRUE
            /\ listeners' = Append(listeners, [selectionTimeout |-> 0])

\* The user changes the selection, or presses or releases a key or button,
\* and the document dispatches the event.
UserEvent ==
    /\ Len(eventTimes) < MaxEvents
    /\ \E kind \in EventKinds, d \in MonSelections :
        /\ docSelection' = d
        /\ IF Observed(kind)
           THEN LET st == DispatchFrom([listeners |-> listeners, timers |-> timers,
                                        nextId |-> nextTimerId], 1)
                IN /\ listeners' = st.listeners
                   /\ timers' = st.timers
                   /\ nextTimerId' = st.nextId
                   /\ eventTimes' = Append(eventTimes, now)
           ELSE UNCHANGED <<listeners, timers, nextTimerId, eventTimes>>
    /\ UNCHANGED <<isInitialized, now, outbox, pdfjsInitialized, readyState,
                   initCalls, received, pendingExtractions>>
    /\ UNCHANGED <<extractVars, streamVars, chatVars, roadmapVars, apiVars, viewVars, appVars>>

\* A debounce timer expires: sendSelectedText()
DebounceFires ==
    /\ \E t \in timers :
        /\ t.kind = "debounce"
        /\ t.due <= now
        /\ timers' = timers \ {t}
    /\ sendSelectedText
    /\ UNCHANGED <<isInitialized, listeners, nextTimerId, now, docSelection,
                   eventTimes, pdfjsInitialized, readyState, initCalls, received,
                   pendingExtractions>>
    /\ UNCHANGED <<extractVars, streamVars, chatVars, roadmapVars, apiVars, viewVars, appVars>>

\* The host's INIT_TEXT_SELECTION_MONITORING message arrives.
InitMessage ==
    /\ received.init < MaxInitMessages
    /\ received' = [received EXCEPT !.init = @ + 1]
    /\ initializeTextSelectionMonitoring("message")
    /\ UNCHANGED <<timers, nextTimerId, now, docSelection, outbox, eventTimes,
                   pdfjsInitialized, readyState, pendingExtractions>>
    /\ UNCHANGED <<extractVars, streamVars, chatVars, roadmapVars, apiVars, viewVars, appVars>>

\* DOMContentLoaded while the script found the document loading:
\* setTimeout(initializeTextSelectionMonitoring, 1000)
DOMContentLoaded ==
    /\ readyState = "loading"
    /\ readyState' = "interactive"
    /\ timers' = timers \cup {Timer(nextTimerId, "autoInit", now + AutoInitMs)}
    /\ nextTimerId' = nextTimerId + 1
    /\ UNCHANGED <<isInitialized, listeners, now, docSelection, outbox, eventTimes,
                   pdfjsInitialized, initCalls, received, pendingExtractions>>
    /\ UNCHANGED <<extractVars, streamVars, chatVars, roadmapVars, apiVars, viewVars, appVars>>

\* The 1000 ms auto-initialize timer expires.
AutoInitFires ==
    /\ \E t \in timers :
        /\ t.kind = "autoInit"
        /\ t.due <= now
        /\ timers' = timers \ {t}
    /\ initializeTextSelectionMonitoring("autoInit")
    /\ UNCHANGED <<nextTimerId, now, docSelection, outbox, eventTimes,
                   pdfjsInitialized, readyState, received, pendingExtractions>>
    /\ UNCHANGED <<extractVars, streamVars, chatVars, roadmapVars, apiVars, viewVars, appVars>>

\* waitForPDFJS(): setTimeout(initializeTextSelectionMonitoring, 500) once
\* the application is initialized, else setTimeout(waitForPDFJS, 100).
waitForPDFJS(pending, id, ready) ==
    IF ready
    THEN pending \cup {Timer(id, "pdfjsReady", now + PdfjsReadyMs)}
    ELSE pending \cup {Timer(id, "poll", now + PollMs)}

\* The polling timer expires: waitForPDFJS()
PollFires ==
    /\ \E t \in timers :
        /\ t.kind = "poll"
        /\ t.due <= now
        /\ timers' = waitForPDFJS(timers \ {t}, nextTimerId, pdfjsInitialized)
    /\ nextTimerId' = nextTimerId + 1
    /\ UNCHANGED <<isInitialized, listeners, now, docSelection, outbox, eventTimes,
                   pdfjsInitialized, readyState, initCalls, received,
                   pendingExtractions>>
    /\ UNCHANGED <<extractVars, streamVars, chatVars, roadmapVars, apiVars, viewVars, appVars>>

\* The 500 ms timer set once PDF.js was found initialized expires.
PdfjsReadyFires ==
    /\ \E t \in timers :
        /\ t.kind = "pdfjsReady"
        /\ t.due <= now
        /\ timers' = timers \ {t}
    /\ initializeTextSelectionMonitoring("pdfjsReady")
    /\ UNCHANGED <<nextTimerId, now, docSelection, outbox, eventTimes,
                   pdfjsInitialized, readyState, received, pendingExtractions>>
    /\ UNCHANGED <<extractVars, streamVars, chatVars, roadmapVars, apiVars, viewVars, appVars>>

\* The PDF.js application finishes its initialization.
PdfjsInitializes ==
    /\ ~pdfjsInitialized
    /\ pdfjsInitialized' = TRUE
    /\ UNCHANGED <<isInitialized, listeners, timers, nextTimerId, now, docSelection,
                   outbox, eventTimes, readyState, initCalls, received,
                   pendingExtractions>>
    /\ UNCHANGED <<extractVars, streamVars, chatVars, roadmapVars, apiVars, viewVars, appVars>>

\* The frame's document at an extraction: the textContent of the text-layer
\* elements, whether PDFViewerApplication.pdfDocument is set, and the body's
\* text (document.body may be null).
Document(textLayer, pdfDocument, hasBody, bodyText) ==
    [textLayer |-> textLayer, pdfDocument |-> pdfDocument, hasBody |-> hasBody,
     body |-> bodyText]

Documents ==
    { Document(<<(<<"a">>), (<<" ">>), (<<"a">>)>>, TRUE, TRUE, <<"a">>),
      Document(<<(<<" ">>)>>, TRUE, TRUE, <<" ">>),
      Document(<<>>, TRUE, TRUE, <<"a">>),
      Document(<<(<<" ">>)>>, FALSE, TRUE, <<" ", "a", " ", " ", "a">>),
      Document(<<>>, FALSE, TRUE, <<" ">>),
      Document(<<>>, FALSE, TRUE, <<>>),
      Document(<<>>, FALSE, FALSE, <<>>) }

Returned(kind, text, error) == [kind |-> kind, text |-> text, error |-> error]

\* extractFullText(): the text of the text layer, else the promise of
\* extractTextFromPDFDocument(), else the body's text, else a throw.
extractFullText(doc) ==
    LET layerText == Trim(CollapseWhitespace(JoinWith(doc.textLayer, <<" ">>)))
    IN IF Len(doc.textLayer) > 0 /\ layerText # <<>>
       THEN Returned("string", layerText, "")
       ELSE IF doc.pdfDocument
       THEN Returned("promise", <<>>, "")
       ELSE IF ~doc.hasBody
       THEN Returned("throw", <<>>, ErrNullBody)
       ELSE IF Trim(doc.body) # <<>>
       THEN Returned("string", Trim(CollapseWhitespace(doc.body)), "")
       ELSE Returned("throw", <<>>, ErrNoTextContent)

\* Mutant of ExtractionAnswer: a promise is taken for a text.
ExtractionAnswerPromiseAsText(r) ==
    IF r.kind = "throw"
    THEN MonMessage("FULL_TEXT_ERROR", <<>>,
                    IF r.error # "" THEN r.error ELSE ErrExtractFallback, now, 0)
    ELSE IF r.kind = "promise"
    THEN MonMessage("FULL_TEXT_RESPONSE", <<>>, "", now, 0)
    ELSE IF r.text # <<>> /\ Trim(r.text) # <<>>
    THEN MonMessage("FULL_TEXT_RESPONSE", r.text, "", now, 0)
    ELSE MonMessage("FULL_TEXT_ERROR", <<>>, ErrNoTextFound, now, 0)

\* The EXTRACT_FULL_TEXT branch of the message listener: FULL_TEXT_RESPONSE
\* when fullText && fullText.trim(), FULL_TEXT_ERROR otherwise and from the
\* catch. A promise is truthy and has no trim method, so the test throws a
\* TypeError into the catch.
ExtractionAnswer(r) ==
    IF r.kind = "throw"
    THEN MonMessage("FULL_TEXT_ERROR", <<>>,
                    IF r.error # "" THEN r.error ELSE ErrExtractFallback, now, 0)
    ELSE IF r.kind = "promise"
    THEN MonMessage("FULL_TEXT_ERROR", <<>>, ErrTrimNotAFunction, now, 0)
    ELSE IF r.text # <<>> /\ Trim(r.text) # <<>>
    THEN MonMessage("FULL_TEXT_RESPONSE", r.text, "", now, 0)
    ELSE MonMessage("FULL_TEXT_ERROR", <<>>, ErrNoTextFound, now, 0)

\* The host's EXTRACT_FULL_TEXT message arrives.
ExtractMessage ==
    /\ received.extract < MaxExtracts
    /\ received' = [received EXCEPT !.extract = @ + 1]
    /\ \E doc \in Documents :
        LET r == extractFullText(doc)
        IN /\ outbox' = Append(outbox, ExtractionAnswer(r))
           /\ pendingExtractions' =
                  IF r.kind = "promise" THEN pendingExtractions + 1
                  ELSE pendingExtractions
    /\ UNCHANGED <<isInitialized, listeners, timers, nextTimerId, now, docSelection,
                   eventTimes, pdfjsInitialized, readyState, initCalls>>
    /\ UNCHANGED <<extractVars, streamVars, chatVars, roadmapVars, apiVars, viewVars, appVars>>

\* The promise of extractTextFromPDFDocument() settles, with the text or
\* with the rethrown error; nothing awaits it.
ExtractionPromiseSettles ==
    /\ pendingExtractions > 0
    /\ pendingExtractions' = pendingExtractions - 1
    /\ UNCHANGED <<isInitialized, listeners, timers, nextTimerId, now, docSelection,
                   outbox, eventTimes, pdfjsInitialized, readyState, initCalls,
                   received>>
    /\ UNCHANGED <<extractVars, streamVars, chatVars, roadmapVars, apiVars, viewVars, appVars>>

\* Time passes while no timer is due.
TimePasses ==
    /\ \A t \in timers : t.due > now
    /\ now + TimeStep <= MaxMonTime
    /\ now' = now + TimeStep
    /\ UNCHANGED <<isInitialized, listeners, timers, nextTimerId, docSelection,
                   outbox, eventTimes, pdfjsInitialized, readyState, initCalls,
                   received, pendingExtractions>>
    /\ UNCHANGED <<extractVars, streamVars, chatVars, roadmapVars, apiVars, viewVars, appVars>>

NothingReceived == [init |-> 0, extract |-> 0]

NothingSelected == [sel |-> <<>>, spans |-> <<>>]

\* The state once the script has run: the auto-initialize timer is set
\* unless the document is still loading, and waitForPDFJS() has run once.
MonitorInit ==
    /\ isInitialized = FALSE
    /\ listeners = <<>>
    /\ now = 0
    /\ readyState \in {"loading", "complete"}
    /\ pdfjsInitialized \in BOOLEAN
    /\ nextTimerId = IF readyState = "loading" THEN 2 ELSE 3
    /\ timers = waitForPDFJS(IF readyState = "loading" THEN {}
                             ELSE {Timer(1, "autoInit", AutoInitMs)},
                             nextTimerId - 1, pdfjsInitialized)
    /\ docSelection = NothingSelected
    /\ outbox = <<>>
    /\ eventTimes = <<>>
    /\ initCalls = {}
    /\ received = NothingReceived
    /\ pendingExtractions = 0

MonitorIdle ==
    /\ isInitialized = FALSE
    /\ listeners = <<>>
    /\ now = 0
    /\ readyState = "complete"
    /\ pdfjsInitialized = FALSE
    /\ nextTimerId = 1
    /\ timers = {}
    /\ docSelection = NothingSelected
    /\ outbox = <<>>
    /\ eventTimes = <<>>
    /\ initCalls = {}
    /\ received = NothingReceived
    /\ pendingExtractions = 0

-----------------------------------------------------------------------------
(* Specifications.                                                         *)

InitExtract ==
    ExtractInit /\ StreamIdle /\ ChatInit /\ RoadmapIdle /\ ApiInit /\ ViewIdle /\
    MonitorIdle /\ AppInit

NextExtract ==
    \/ ExtractCall
    \/ TimeoutFires
    \/ DeliverMessage
    \/ SetIframe

SpecExtract == InitExtract /\ [][NextExtract]_vars

InitStream ==
    ExtractIdle /\ StreamInit /\ ChatInit /\ RoadmapIdle /\ ApiInit /\ ViewIdle /\
    MonitorIdle /\ AppInit

NextStream ==
    \/ ReadChunk
    \/ ConsumerNext
    \/ ConsumerReturns
    \/ ReadDone
    \/ ReadFails

SpecStream == InitStream /\ [][NextStream]_vars

InitChat ==
    ExtractIdle /\ StreamIdle /\ ChatInit /\ RoadmapIdle /\ ApiInit /\ ViewIdle /\
    MonitorIdle /\ AppInit

NextChat ==
    \/ SendMessage
    \/ StreamYields
    \/ StreamEnds
    \/ StreamThrows
    \/ ClearMessages
    \/ Tick

SpecChat == InitChat /\ [][NextChat]_vars

InitRoadmap ==
    ExtractIdle /\ StreamIdle /\ ChatInit /\ RoadmapInit /\ ApiInit /\ ViewIdle /\
    MonitorIdle /\ AppInit

NextRoadmap ==
    \/ CreateFlow
    \/ RoadmapDataChanges
    \/ SetLayoutType
    \/ HandleClear
    \/ OnConnect
    \/ OnNodesChange
    \/ OnEdgesChange

SpecRoadmap == InitRoadmap /\ [][NextRoadmap]_vars

\* The component without the user's edits on the canvas: the steps that
\* write what createFlowFromData gives, or clear it.
NextCreateFlow ==
    \/ CreateFlow
    \/ RoadmapDataChanges
    \/ SetLayoutType
    \/ HandleClear

SpecCreateFlow == InitRoadmap /\ [][NextCreateFlow]_vars

InitApi ==
    ExtractIdle /\ StreamIdle /\ ChatInit /\ RoadmapIdle /\ ApiInit /\ ViewIdle /\
    MonitorIdle /\ AppInit

NextApi ==
    \/ GenerateRoadmap
    \/ PostSettles
    \/ StreamChatFails

SpecApi == InitApi /\ [][NextApi]_vars

InitView ==
    ExtractIdle /\ StreamIdle /\ ChatInit /\ RoadmapIdle /\ ApiInit /\ ViewInit /\
    MonitorIdle /\ AppInit

NextView ==
    \/ ClickSend
    \/ PressEnter
    \/ ChangeInput
    \/ TextSelectionMessage
    \/ ClickClearSelection
    \/ ClearPDF
    \/ ExtractionSettles
    \/ SendSettles
    \/ HandleSendResumes
    \/ ClickClear

SpecView == InitView /\ [][NextView]_vars

InitApp ==
    ExtractIdle /\ StreamIdle /\ ChatInit /\ RoadmapIdle /\ ApiInit /\ ViewIdle /\
    MonitorIdle /\ AppInit

NextApp ==
    \/ GenerateRoadmapFromText
    \/ FetchSettles
    \/ BodySettles
    \/ ProcessJsonData
    \/ ClearDiagram
    \/ ChangeTextInput
    \/ ChangeJsonInput
    \/ AppOnConnect
    \/ AppOnNodesChange
    \/ AppOnEdgesChange

SpecApp == InitApp /\ [][NextApp]_vars

InitMonitor ==
    ExtractIdle /\ StreamIdle /\ ChatInit /\ RoadmapIdle /\ ApiInit /\ ViewIdle /\
    MonitorInit /\ AppInit

NextMonitor ==
    \/ UserEvent
    \/ DebounceFires
    \/ InitMessage
    \/ DOMContentLoaded
    \/ AutoInitFires
    \/ PollFires
    \/ PdfjsReadyFires
    \/ PdfjsInitializes
    \/ TimePasses

SpecMonitor == InitMonitor /\ [][NextMonitor]_vars

InitFrameExtract ==
    ExtractIdle /\ StreamIdle /\ ChatInit /\ RoadmapIdle /\ ApiInit /\ ViewIdle /\
    MonitorInit /\ AppInit

NextFrameExtract ==
    \/ ExtractMessage
    \/ ExtractionPromiseSettles
    \/ PollFires
    \/ PdfjsInitializes
    \/ TimePasses

SpecFrameExtract == InitFrameExtract /\ [][NextFrameExtract]_vars

-----------------------------------------------------------------------------
(* Properties of the extraction protocol (under SpecExtract).              *)

Listeners == {c \in DOMAIN calls : calls[c].listener}
Unsettled == {c \in DOMAIN calls : calls[c].status = "pending"}

AllWhitespace(text) == \A i \in 1..Len(text) : IsWhitespace(text[i])

\* C1: in every reachable state the number of registered extraction
\* listeners equals the number of unsettled extraction calls, and no settled
\* call has its timer still pending (each of the three ways a call settles
\* removes its listener and its timer).
C1_ListenersEqualUnsettled ==
    /\ Cardinality(Listeners) = Cardinality(Unsettled)
    /\ \A c \in DOMAIN calls :
        calls[c].status # "pending" => calls[c].timer # "pending"

\* C2: a call whose timer fired (no response or error message came first) is
\* rejected with the timeout error, and no handler of that call runs on a
\* message that arrives afterwards.
C2_TimedOutCallIgnoresMessages ==
    \A c \in DOMAIN calls :
        calls[c].timer = "fired" =>
            /\ calls[c].status = "rejected"
            /\ calls[c].error = ErrTimeout
            /\ calls[c].ran = 0
            /\ calls[c].lastMsg = NoMessage

\* C3: the first FULL_TEXT_RESPONSE or FULL_TEXT_ERROR message a call's
\* listener gets settles the call, the call's handler runs at most once, a
\* settled call keeps its outcome, and once the handler has run no later step
\* (a later message of either type included) changes anything of that call.
C3_FirstResponseSettlesOnce ==
    /\ [](\A c \in DOMAIN calls :
            /\ calls[c].ran <= 1
            /\ calls[c].ran = 1 =>
                 calls[c].status # "pending" /\ ~calls[c].listener)
    /\ [][\A c \in DOMAIN calls :
            /\ calls[c].ran = 1 => calls'[c] = calls[c]
            /\ calls[c].status # "pending" =>
                 /\ calls'[c].status = calls[c].status
                 /\ calls'[c].text = calls[c].text
                 /\ calls'[c].error = calls[c].error]_vars

\* C3 witness: two calls were each settled by a message, and by different
\* messages: the later message was dispatched after the first call's handler
\* had run.
C3_Witness ==
    \E c1, c2 \in DOMAIN calls :
        /\ c1 < c2
        /\ calls[c1].ran = 1 /\ calls[c2].ran = 1
        /\ calls[c1].lastMsg # calls[c2].lastMsg
        /\ calls[c1].status = "resolved"
        /\ calls[c2].status = "rejected"

\* C4: a call made while the viewer iframe is absent, or its contentWindow
\* is not accessible, is rejected with the matching not-found error, starts
\* no timer, registers no listener, posts no EXTRACT_FULL_TEXT message and
\* leaves the earlier calls and the iframe as they were.
C4_AbsentIframeRejectsWithoutEffect ==
    [][(Len(calls') = Len(calls) + 1 /\ iframe # "present") =>
        LET call == calls'[Len(calls')] IN
        /\ call.status = "rejected"
        /\ call.error = IF iframe = "absent" THEN ErrIframeNotFound
                        ELSE ErrNoContentWindow
        /\ ~call.listener
        /\ call.timer = "none"
        /\ call.ran = 0
        /\ posted' = posted
        /\ iframe' = iframe
        /\ SubSeq(calls', 1, Len(calls)) = calls]_vars

\* C4 witness: a call was rejected for the absent iframe and another for the
\* missing content window, and no request was posted to the iframe.
C4_Witness ==
    /\ \E c \in DOMAIN calls :
        /\ calls[c].status = "rejected"
        /\ calls[c].error = ErrIframeNotFound
        /\ calls[c].timer = "none"
    /\ \E c \in DOMAIN calls : calls[c].error = ErrNoContentWindow
    /\ posted = 0

\* C5: a call resolves only with a text that has a non-whitespace character;
\* a FULL_TEXT_RESPONSE whose text is missing, empty or whitespace-only
\* leaves the call rejected, with the 'no text found' error unless the timer
\* had rejected it before, its listener removed and its timer not pending.
C5_NeverResolvesBlank ==
    \A c \in DOMAIN calls :
        /\ calls[c].status = "resolved" =>
             \E i \in 1..Len(calls[c].text) : ~IsWhitespace(calls[c].text[i])
        /\ ( /\ calls[c].lastMsg.type = "FULL_TEXT_RESPONSE"
             /\ (~calls[c].lastMsg.hasText \/ AllWhitespace(calls[c].lastMsg.text)) )
             => /\ calls[c].status = "rejected"
                /\ calls[c].error =
                     IF calls[c].timer = "fired" THEN ErrTimeout ELSE ErrNoText
                /\ ~calls[c].listener
                /\ calls[c].timer # "pending"

\* C5 witness: a pending call got a whitespace-only, non-empty text and was
\* rejected with the 'no text found' error.
C5_Witness ==
    \E c \in DOMAIN calls :
        /\ calls[c].lastMsg.type = "FULL_TEXT_RESPONSE"
        /\ calls[c].lastMsg.hasText
        /\ Len(calls[c].lastMsg.text) > 0
        /\ AllWhitespace(calls[c].lastMsg.text)
        /\ calls[c].status = "rejected"
        /\ calls[c].error = ErrNoText

-----------------------------------------------------------------------------
(* Properties of the streaming chat client (under SpecStream).             *)

RECURSIVE Flatten(_)
Flatten(fs) == IF fs = <<>> THEN <<>> ELSE Head(fs) \o Flatten(Tail(fs))

\* The content fields of the data lines the server wrote before the first
\* [DONE] line, concatenated in order.
RECURSIVE ContentBeforeDone(_)
ContentBeforeDone(ls) ==
    IF ls = <<>> \/ Head(ls) = "done" THEN <<>>
    ELSE LineContent(Head(ls)) \o ContentBeforeDone(Tail(ls))

\* C6: however the body is split into read chunks, when the sequence has
\* ended (at the [DONE] sentinel, or at the end of a body without one) the
\* concatenation of the yielded fragments equals the concatenation, in
\* order, of the content fields of the data lines before the sentinel.
C6_YieldedEqualsContent ==
    streamStatus \in {"returned", "completed"} =>
        Flatten(yielded) = ContentBeforeDone(lines)

\* C7: once the read loop has reached a data line whose payload has an error
\* field, the sequence has ended by raising an error and no fragment of a
\* later line has been yielded.
C7_ErrorPayloadTerminates ==
    thrownAt # -1 =>
        /\ streamStatus = "failed"
        /\ Len(yielded) = thrownAt

-----------------------------------------------------------------------------
(* Properties of the chat session hook (under SpecChat).                   *)

\* The fragments of a send, joined in order.
RECURSIVE Concat(_)
Concat(fs) == IF fs = <<>> THEN "" ELSE Head(fs) \o Concat(Tail(fs))

Starts(s) == s \notin DOMAIN sends /\ s \in DOMAIN sends'
Completes(s) == s \in DOMAIN sends /\ sends[s].pc = "streaming" /\ sends'[s].pc = "done"
Fails(s) == s \in DOMAIN sends /\ sends[s].pc = "streaming" /\ sends'[s].pc = "failed"

\* C8: the step that starts a send appends the user message and directly
\* after it the empty assistant placeholder, to the end of the log, with no
\* fragment applied (the streaming buffer is empty and the call has received
\* nothing); a fragment is applied only to a send that is streaming, that
\* is, after the step that appended its placeholder.
C8_AppendsBeforeFragments ==
    /\ [][\A s \in 1..MaxSends : Starts(s) =>
            LET n == Len(messages) IN
            /\ Len(messages') = n + 2
            /\ SubSeq(messages', 1, n) = messages
            /\ messages'[n + 1].role = "user"
            /\ messages'[n + 2].role = "assistant"
            /\ messages'[n + 2].content = ""
            /\ messages'[n + 2].id = sends'[s].assistantMessageId
            /\ sends'[s].slot = n + 2
            /\ sends'[s].received = <<>>
            /\ streamingMessage' = ""]_vars
    /\ [][\A s \in DOMAIN sends' :
            (s \notin DOMAIN sends \/ sends'[s].received # sends[s].received) =>
                /\ s \in DOMAIN sends => sends[s].pc = "streaming"
                /\ s \notin DOMAIN sends => sends'[s].received = <<>>]_vars

\* C8 witness: a send has received a fragment, and its user message and its
\* placeholder are next to each other in the log.
C8_Witness ==
    \E s \in DOMAIN sends :
        /\ Len(sends[s].received) > 0
        /\ ~sends[s].cleared
        /\ messages[sends[s].slot - 1].role = "user"
        /\ messages[sends[s].slot].id = sends[s].assistantMessageId
        /\ streamingMessage = Concat(sends[s].received)

\* C9: when a send's stream ends normally and the log was not cleared since
\* the send began, the step leaves the send's placeholder with the
\* concatenation of the send's fragments as content, changes the content of
\* no other log entry, and leaves the streaming buffer empty.
C9_CompletionFinalizesPlaceholderOnly ==
    [][\A s \in DOMAIN sends : (Completes(s) /\ ~sends[s].cleared) =>
        /\ Len(messages') = Len(messages)
        /\ messages'[sends[s].slot].id = sends[s].assistantMessageId
        /\ messages'[sends[s].slot].content = Concat(sends[s].received)
        /\ \A i \in DOMAIN messages :
             i # sends[s].slot => messages'[i].content = messages[i].content
        /\ streamingMessage' = ""]_vars

\* C10: when streamChat raises during a send, the content of the placeholder
\* the send appended is replaced by the apology text, and the request is not
\* made again.
C10_FailureReplacesPlaceholder ==
    [][\A s \in DOMAIN sends : (Fails(s) /\ ~sends[s].cleared) =>
        /\ messages'[sends[s].slot].content = ApologyText
        /\ sends'[s].requests = 1]_vars

\* C10, amended: when streamChat raises during a send, before or after some
\* fragments, the step appends a new assistant message with the apology text
\* to the end of the log and leaves every entry already in the log as it
\* was, the send's placeholder included; the request is not made again and
\* the send ends.
C10_FailureAppendsApology ==
    [][\A s \in DOMAIN sends : Fails(s) =>
        LET n == Len(messages) IN
        /\ Len(messages') = n + 1
        /\ SubSeq(messages', 1, n) = messages
        /\ messages'[n + 1].content = ApologyText
        /\ messages'[n + 1].role = "assistant"
        /\ sends'[s].requests = 1
        /\ sends'[s].received = sends[s].received
        /\ \A r \in DOMAIN sends : r # s => sends'[r] = sends[r]]_vars

\* C10 witness: a send failed after it had received a fragment; its
\* placeholder is still empty and the apology is the last entry of the log.
C10_Witness ==
    \E s \in DOMAIN sends :
        /\ sends[s].pc = "failed"
        /\ Len(sends[s].received) > 0
        /\ ~sends[s].cleared
        /\ messages[sends[s].slot].id = sends[s].assistantMessageId
        /\ messages[sends[s].slot].content = ""
        /\ messages[Len(messages)].content = ApologyText
        /\ messages[Len(messages)].id.suffix = "error"

\* C11: a send whose streamChat raises does not reject: the failing step
\* fulfils the call's promise, leaves the apology as the last entry of the
\* log and clears the loading flag, and no call's promise is ever rejected.
\* After a failure a further send can be issued, and it starts as any send
\* does (its user message and empty placeholder appended, loading set).
C11_FailureIsContained ==
    /\ [][\A s \in DOMAIN sends : Fails(s) =>
            /\ sends'[s].promise = "fulfilled"
            /\ messages'[Len(messages')].content = ApologyText
            /\ messages'[Len(messages')].role = "assistant"
            /\ isLoading' = FALSE]_vars
    /\ [](\A s \in DOMAIN sends : sends[s].promise # "rejected")
    /\ []((Len(sends) < MaxSends /\ \E r \in DOMAIN sends : sends[r].pc = "failed")
            => ENABLED SendMessage)
    /\ [][\A s \in 1..MaxSends :
            (Starts(s) /\ \E r \in DOMAIN sends : sends[r].pc = "failed") =>
                /\ Len(messages') = Len(messages) + 2
                /\ messages'[Len(messages') - 1].role = "user"
                /\ messages'[Len(messages')].content = ""
                /\ sends'[s].pc = "streaming"
                /\ isLoading' = TRUE]_vars

\* C11 witness: a send failed, and a send issued after it received its
\* fragments and completed with them as the content of its placeholder.
C11_Witness ==
    \E r, s \in DOMAIN sends :
        /\ r < s
        /\ sends[r].pc = "failed"
        /\ sends[r].promise = "fulfilled"
        /\ sends[s].pc = "done"
        /\ Len(sends[s].received) > 0
        /\ ~sends[s].cleared
        /\ messages[sends[s].slot - 2].content = ApologyText
        /\ messages[sends[s].slot].content = Concat(sends[s].received)

\* C12: when a send completes after the log was cleared during its stream,
\* the step appends the content accumulated so far to the log as a new
\* entry.
C12_ClearedSendAppendsContent ==
    [][\A s \in DOMAIN sends :
        (Completes(s) /\ sends[s].cleared /\ sends[s].received # <<>>) =>
            /\ Len(messages') = Len(messages) + 1
            /\ messages'[Len(messages')].content = Concat(sends[s].received)]_vars

\* C19: the identifiers of the messages in the log are pairwise distinct.
C19_MessageIdsDistinct ==
    \A i, j \in DOMAIN messages :
        i # j => messages[i].id # messages[j].id

\* The placeholder identifier of send s is the identifier of no other send.
OwnIdentifier(s) ==
    \A t \in DOMAIN sends :
        t # s => sends[t].assistantMessageId # sends[s].assistantMessageId

-----------------------------------------------------------------------------
(* Properties of the chat view (under SpecView).                           *)

\* The handleSend invocations that await their extraction, and those that
\* await their sendMessage call.
Extracting == {h \in DOMAIN handlers : handlers[h].pc = "extracting"}
Sending == {h \in DOMAIN handlers : handlers[h].pc = "sending"}

\* C13: under every sequence of view events at most one sendMessage call is
\* in flight, and no send is under way (extracting or sending) next to
\* another: a second send is never started while isLoading is true or while
\* the extraction of an earlier send is pending.
C13_AtMostOneSendInFlight ==
    /\ Cardinality(Sending) <= 1
    /\ Cardinality(Extracting \cup Sending) <= 1

-----------------------------------------------------------------------------
(* Properties of the roadmap graph construction (under SpecRoadmap).       *)

\* The ordered pairs the data declares: t in s's outdegree_id, or s in t's
\* indegree_id.
DeclaredEdges(data) ==
    UNION {
        {<<data[i].id, data[i].outdegree_id.ids[k]>> :
            k \in DOMAIN data[i].outdegree_id.ids}
        \cup {<<data[i].indegree_id.ids[k], data[i].id>> :
            k \in DOMAIN data[i].indegree_id.ids} :
        i \in DOMAIN data}

EdgePairs(edges) == {<<edges[k].source, edges[k].target>> : k \in DOMAIN edges}

\* C14: the rendered edge set is exactly the set of declared pairs (s, t)
\* whose s and t are both ids of nodes of the array.
C14_EdgesIffBothEndsExist ==
    flowStatus = "rendered" =>
        EdgePairs(flowEdges) =
            {p \in DeclaredEdges(roadmapData) :
                NodeExists(roadmapData, p[1]) /\ NodeExists(roadmapData, p[2])}

\* C15: the rendered edge list has no two edges with the same ordered
\* (source, target) pair.
C15_NoDuplicateEdges ==
    flowStatus = "rendered" =>
        \A i, j \in DOMAIN flowEdges :
            i # j => <<flowEdges[i].source, flowEdges[i].target>> #
                     <<flowEdges[j].source, flowEdges[j].target>>

\* C15 witness: the hierarchy variant rendered an array that declares A->B
\* twice in A's outdegree_id and once more in B's indegree_id, so that the
\* hierarchy pass meets the pair twice and the additional pass twice again;
\* the edge list has the one edge.
C15_Witness ==
    /\ flowStatus = "rendered"
    /\ layoutVariant = "hierarchy"
    /\ Len(roadmapData) = 2
    /\ roadmapData[1].outdegree_id.ids = <<"B", "B">>
    /\ roadmapData[2].indegree_id.ids = <<"A">>
    /\ Len(flowEdges) = 1
    /\ flowEdges[1].source = "A"
    /\ flowEdges[1].target = "B"

-----------------------------------------------------------------------------
(* Properties of the API client's failure mapping (under SpecApi).         *)

\* C16: a roadmap generation call with empty or whitespace-only text, by
\* either entry point, issues no request, reports an error, and leaves the
\* nodes and edges as they were: apiService.generateRoadmap issues no POST
\* for it and throws, and a generateRoadmapFromText call issues no fetch and
\* sets the error.
C16_BlankTextRejectedBeforeRequest ==
    [][ /\ ( /\ Len(apiPending') > Len(apiPending)
             /\ Trim(apiPending'[Len(apiPending')].text) = <<>> ) =>
                apiPosts' = apiPosts
        /\ ( /\ apiCall' # apiCall
             /\ apiCall'.op = "generateRoadmap"
             /\ Trim(apiCall'.text) = <<>> ) =>
                /\ apiCall'.posts = 0
                /\ apiCall'.settled = "threw"
                /\ apiCall'.error # ""
                /\ flowNodes' = flowNodes
                /\ flowEdges' = flowEdges
        /\ ( /\ Len(appCalls') > Len(appCalls)
             /\ Trim(textInput) = <<>> ) =>
                /\ appFetches' = appFetches
                /\ appError' = AppErrorPrefix \o ErrTextEmpty
                /\ appNodes' = appNodes
                /\ appEdges' = appEdges ]_vars

\* C17: a failed generateRoadmap call throws, after its one request, the
\* message chosen by: status 404, the not-found message; else code
\* ECONNREFUSED, the cannot-connect message; else the detail of the error
\* response when present; else the generic failure message.
C17_FailurePrecedence ==
    (apiCall.op = "generateRoadmap" /\ apiCall.outcome = "error") =>
        LET e == apiCall.failure IN
        /\ apiCall.settled = "threw"
        /\ apiCall.posts = 1
        /\ apiCall.error =
            IF e.response.present /\ e.response.status = 404 THEN ErrRoadmapNotFound
            ELSE IF e.code = "ECONNREFUSED" THEN ErrCannotConnect
            ELSE IF e.response.present /\ Truthy(e.response.detail)
                 THEN e.response.detail.value
            ELSE ErrRoadmapDefault

\* C17, amended: as C17, but an axios error that has neither of the two
\* distinct causes nor a non-empty detail gives its own message when that is
\* non-empty, and the generic message only otherwise; an error that is not
\* an axios error gives the generic message.
C17_FailurePrecedenceWithMessage ==
    (apiCall.op = "generateRoadmap" /\ apiCall.outcome = "error") =>
        LET e == apiCall.failure IN
        /\ apiCall.settled = "threw"
        /\ apiCall.posts = 1
        /\ apiCall.error =
            IF ~e.isAxiosError THEN ErrRoadmapDefault
            ELSE IF e.response.present /\ e.response.status = 404 THEN ErrRoadmapNotFound
            ELSE IF e.code = "ECONNREFUSED" THEN ErrCannotConnect
            ELSE IF e.response.present /\ Truthy(e.response.detail)
                 THEN e.response.detail.value
            ELSE IF e.message # "" THEN e.message
            ELSE ErrRoadmapDefault

\* C17 witness: the request timed out (no response, code ECONNABORTED) and
\* the call threw the axios message.
C17_Witness ==
    /\ apiCall.op = "generateRoadmap"
    /\ apiCall.settled = "threw"
    /\ apiCall.outcome = "error"
    /\ apiCall.failure.isAxiosError
    /\ ~apiCall.failure.response.present
    /\ apiCall.failure.code = "ECONNABORTED"
    /\ apiCall.error = "timeout of 30000ms exceeded"

\* C18: streamChat raises the cannot-connect error exactly for the failures
\* of the fetch itself (the host cannot be reached), and the generic error
\* for a non-ok status, a missing reader and a read error.
C18_NetworkFailureIsDistinct ==
    apiCall.op = "streamChat" =>
        /\ apiCall.failure.stage = "fetch" => apiCall.error = ErrCannotConnect
        /\ apiCall.failure.stage # "fetch" => apiCall.error = ErrChatDefault

-----------------------------------------------------------------------------
(* Further properties of the chat session hook (under SpecChat).           *)

\* A step is a clearMessages call that changes something: the log is
\* emptied, or a send is marked as begun before a clear.
Clears ==
    \/ messages # <<>> /\ messages' = <<>>
    \/ \E s \in DOMAIN sends : s \in DOMAIN sends' /\ ~sends[s].cleared /\ sends'[s].cleared

InFlight == {s \in DOMAIN sends : sends[s].pc = "streaming"}

\* C21: a clearMessages call, in any state, leaves the log and the
\* streaming buffer empty, leaves isLoading as it was and leaves every send
\* where it was (a streaming send keeps streaming with the fragments it
\* has); a fragment that arrives later sets the buffer again.
C21_ClearEmptiesLogAndBufferOnly ==
    [][Clears =>
        /\ messages' = <<>>
        /\ streamingMessage' = ""
        /\ isLoading' = isLoading
        /\ clock' = clock
        /\ DOMAIN sends' = DOMAIN sends
        /\ \A s \in DOMAIN sends :
            /\ sends'[s].pc = sends[s].pc
            /\ sends'[s].received = sends[s].received
            /\ sends'[s].fullContent = sends[s].fullContent
            /\ sends'[s].promise = sends[s].promise]_vars

\* C21 witness: the log was cleared while a send was streaming, and a
\* fragment that arrived afterwards filled the buffer again.
C21_Witness ==
    \E s \in DOMAIN sends :
        /\ sends[s].pc = "streaming"
        /\ sends[s].cleared
        /\ messages = <<>>
        /\ isLoading
        /\ streamingMessage = "Hello there"

\* C26: whenever no send is in flight, the streaming buffer is empty.
C26_IdleBufferEmpty ==
    InFlight = {} => streamingMessage = ""

\* C27: isLoading is true exactly when some send is in flight.
C27_LoadingIffInFlight ==
    isLoading <=> InFlight # {}

-----------------------------------------------------------------------------
(* Further properties of the extraction protocol (under SpecExtract).      *)

\* The step settles call c through its message handler.
SettledByMessage(c) ==
    /\ calls[c].status = "pending"
    /\ calls'[c].status # "pending"
    /\ calls'[c].ran = calls[c].ran + 1

\* C22: a message that settles one outstanding call settles, in the same
\* step, every call outstanding at that moment, all with the same outcome
\* (the same message, status, text and error), and removes the listener of
\* each, so that a response to one of the other requests finds none of them
\* listening; no request is posted by the step.
C22_OneResponseSettlesAllOutstanding ==
    [][\A c \in DOMAIN calls : SettledByMessage(c) =>
        /\ posted' = posted
        /\ \A d \in DOMAIN calls : calls[d].status = "pending" =>
            /\ SettledByMessage(d)
            /\ ~calls'[d].listener
            /\ calls'[d].lastMsg = calls'[c].lastMsg
            /\ calls'[d].status = calls'[c].status
            /\ calls'[d].text = calls'[c].text
            /\ calls'[d].error = calls'[c].error]_vars

\* C22 witness: two requests were posted and the two calls were resolved, by
\* one and the same message, each running its handler once.
C22_Witness ==
    /\ posted = 2
    /\ Len(calls) = 2
    /\ \A c \in DOMAIN calls :
        /\ calls[c].status = "resolved"
        /\ calls[c].ran = 1
        /\ calls[c].timer = "cleared"
    /\ calls[1].lastMsg = calls[2].lastMsg
    /\ calls[1].text = calls[2].text

-----------------------------------------------------------------------------
(* Further properties of the streaming chat client (under SpecStream).     *)

LineSet == {lines[i] : i \in DOMAIN lines}

\* C25: a data line with a payload that is not valid JSON, and a line
\* without the data prefix, yield nothing and neither end nor fail the
\* sequence. For a body without error payloads whose lines each reached the
\* read loop whole, the ended sequence has yielded the content of every
\* content line before the sentinel, in order, the ones after such lines
\* included; the sequence is ended by a read step only at a sentinel line,
\* and never failed by one.
C25_BadLinesAreSkipped ==
    /\ []((streamStatus \in {"returned", "completed"} /\ ~cutLine /\ "error" \notin LineSet)
            => Flatten(yielded) = ContentBeforeDone(lines))
    /\ [](streamStatus = "returned" => "done" \in LineSet)
    /\ [][(pos' # pos \/ yielded' # yielded) =>
            streamStatus' \in {"reading", "suspended", "returned"}]_vars

\* C25 witness: the body was a malformed data line and then a content line,
\* or a line without the prefix and then a content line; no line was cut,
\* and the sequence completed having yielded the content.
C25_Witness ==
    /\ streamStatus = "completed"
    /\ ~cutLine
    /\ Len(lines) = 2
    /\ lines[1] = "malformed"
    /\ lines[2] = "contentA"
    /\ yielded = <<(<<"a">>)>>

-----------------------------------------------------------------------------
(* Further properties of the roadmap flow (under SpecRoadmap).             *)

Occurrences(seq, x) == Cardinality({k \in DOMAIN seq : seq[k] = x})

\* C30: in the d3-hierarchy variant the rendered node list holds each input
\* node identifier exactly once, and besides these at most the one virtual
\* root, so that both ends of every rendered edge are rendered nodes.
C30_EachNodeRenderedOnce ==
    (flowStatus = "rendered" /\ layoutVariant = "hierarchy") =>
        /\ \A i \in DOMAIN roadmapData : Occurrences(flowNodes, roadmapData[i].id) = 1
        /\ Occurrences(flowNodes, "virtual-root") <= 1
        /\ \A k \in DOMAIN flowNodes :
               flowNodes[k] = "virtual-root" \/ NodeExists(roadmapData, flowNodes[k])
        /\ \A e \in DOMAIN flowEdges :
               /\ Occurrences(flowNodes, flowEdges[e].source) >= 1
               /\ Occurrences(flowNodes, flowEdges[e].target) >= 1

-----------------------------------------------------------------------------
(* Further properties of the chat view and the selection slot (SpecView).  *)

\* C24: the selected-text slot holds the text of the latest TEXT_SELECTION
\* message when no clear (after a send, by the chip's button, by clearPDF)
\* came after it, and the empty string otherwise; and only a message or a
\* clear changes the slot.
C24_SlotIsLastWrite ==
    /\ [](selectedText = IF lastSlotWrite.op = "message" THEN lastSlotWrite.text ELSE "")
    /\ [][selectedText' # selectedText => lastSlotWrite'.op \in {"message", "clear"}]_vars
    /\ [][lastSlotWrite' = lastSlotWrite => selectedText' = selectedText]_vars

\* C24 witness: a send started with one selection held, a second TEXT_SELECTION
\* message replaced it while the send was outstanding, the send settled and
\* cleared the slot, and a later message wrote the slot again.
C24_Witness ==
    /\ \E h \in DOMAIN handlers : handlers[h].pc = "finished"
    /\ lastSlotWrite = [op |-> "message", text |-> "other"]
    /\ selectedText = "other"
    /\ viewLogLen >= 2

-----------------------------------------------------------------------------
(* Properties of the embedded selection monitor (SpecMonitor) and of the   *)
(* frame's answer to an extraction request (SpecFrameExtract).             *)

DebounceTimers == {t \in timers : t.kind = "debounce"}

SelectionMessages == {k \in DOMAIN outbox : outbox[k].type = "TEXT_SELECTION"}

\* C23: every selection event the listeners see cancels the pending debounce
\* timer and starts a new one of 300 ms, so at most one is pending; a
\* TEXT_SELECTION message is posted only by the expiry of that timer, only
\* with the non-empty selected text of that moment, no sooner than 300 ms
\* after the latest event, and a later message only after a later event.
C23_DebouncedNonEmptyMessages ==
    /\ [](Cardinality(DebounceTimers) <= 1)
    /\ [][eventTimes' # eventTimes =>
            /\ Cardinality(DebounceTimers') = 1
            /\ \A t \in DebounceTimers' : t.due = now + DebounceMs /\ t \notin timers]_vars
    /\ [][outbox' # outbox =>
            /\ \E t \in DebounceTimers : t \notin timers' /\ t.due <= now
            /\ getSelectedText(docSelection) # <<>>
            /\ outbox' = Append(outbox, MonMessage("TEXT_SELECTION",
                                    getSelectedText(docSelection), "", now, LastEventAt))]_vars
    /\ [](\A k \in SelectionMessages :
            /\ Len(outbox[k].text) > 0
            /\ Trim(outbox[k].text) = outbox[k].text
            /\ outbox[k].at >= outbox[k].quietSince + DebounceMs
            /\ \A j \in SelectionMessages : j < k => outbox[k].quietSince >= outbox[j].at)

\* C23 witness: two selection events less than 300 ms apart were seen, and
\* the one message posted since came 300 ms or more after the second.
C23_Witness ==
    /\ Len(eventTimes) = 2
    /\ eventTimes[2] > eventTimes[1]
    /\ eventTimes[2] - eventTimes[1] < DebounceMs
    /\ Len(outbox) = 1
    /\ outbox[1].type = "TEXT_SELECTION"
    /\ outbox[1].text = <<"a">>
    /\ outbox[1].quietSince = eventTimes[2]
    /\ DebounceTimers = {}

\* C29: however the INIT_TEXT_SELECTION_MONITORING messages, the auto-initialize
\* timer and the timer set by the PDF.js polling interleave, the selection
\* listeners are registered once, by the first caller, and never again; so
\* the frame never has more than one pending debounce timer per event.
C29_InitializedAtMostOnce ==
    /\ [](Len(listeners) <= 1)
    /\ [](isInitialized <=> Len(listeners) = 1)
    /\ [](initCalls # {} <=> isInitialized)
    /\ [][isInitialized => listeners' = listeners \/ Len(listeners') = Len(listeners)]_vars
    /\ [](Cardinality(DebounceTimers) <= Len(listeners))

\* C29 witness: two INIT messages, the auto-initialize timer and the timer of
\* the PDF.js polling have all called the initializer, there is the one
\* registration, and a selection event has left the one debounce timer.
C29_Witness ==
    /\ initCalls = {"message", "autoInit", "pdfjsReady"}
    /\ received.init = 2
    /\ Len(listeners) = 1
    /\ Len(eventTimes) >= 1
    /\ Cardinality(DebounceTimers) = 1

\* C28: each EXTRACT_FULL_TEXT message is answered by exactly one message,
\* posted while it is handled: FULL_TEXT_RESPONSE with a text that is not
\* blank, or FULL_TEXT_ERROR with a non-empty error string; nothing else,
\* the later settling of a promise included, posts an answer.
C28_OneAnswerPerExtraction ==
    /\ [](Len(outbox) = received.extract)
    /\ [](\A k \in DOMAIN outbox :
            \/ outbox[k].type = "FULL_TEXT_RESPONSE" /\ Trim(outbox[k].text) # <<>>
            \/ outbox[k].type = "FULL_TEXT_ERROR" /\ outbox[k].error # "")
    /\ [][received'.extract = received.extract + 1 => Len(outbox') = Len(outbox) + 1]_vars
    /\ [][received'.extract = received.extract => outbox' = outbox]_vars

\* C28 witness: one extraction took the text-layer path and was answered with
\* the text; another took the PDF-document path, was answered with the
\* TypeError's message, and its promise has since settled unobserved.
C28_Witness ==
    /\ received.extract = 2
    /\ outbox[1].type = "FULL_TEXT_RESPONSE"
    /\ outbox[1].text = <<"a", " ", "a">>
    /\ outbox[2].type = "FULL_TEXT_ERROR"
    /\ outbox[2].error = ErrTrimNotAFunction
    /\ pendingExtractions = 0

=============================================================================
